---- MODULE Spec2Model ----
(***************************************************************************)
(* Model of the semester planner's computational core:                     *)
(*   - calculateStudentPositions (src/lib/parsers/student-parser.ts)       *)
(*   - the Timetable component: handleProfessorSelect and the              *)
(*     courseSchedule grid (src/unnamed/part_002)                          *)
(*   - parseStudentData (src/lib/parsers/student-parser.ts)                *)
(*   - the Home page: its load sequence and what it renders                *)
(*     (src/unnamed/part_000), with the boxes of the CurriculumVisualizer  *)
(*     (src/components/curriculum-visualizer.tsx)                          *)
(* Lengths are in pixels.  JavaScript numbers are modelled as exact        *)
(* integers; the phase widths drawn as inputs are such that the two        *)
(* divisions of calculateStudentPositions are exact.                       *)
(***************************************************************************)
EXTENDS Integers, Sequences, FiniteSets, TLC

VARIABLES
    pc,                 \* which operation of the modelled component ran last
    studentPlan,        \* calculateStudentPositions: argument studentPlan
    phaseWidth,         \* calculateStudentPositions: argument phaseWidth
    positions,          \* calculateStudentPositions: result.positions
    courseMap,          \* calculateStudentPositions: result.courseMap
    scheduleData,       \* Timetable: the imported schedule.json
    studentInfo,        \* Timetable: the studentInfo prop
    professorOverrides, \* Timetable: the professorOverrides state
    courseSchedule,     \* Timetable: the courseSchedule memo of the last render
    jsonData,           \* parseStudentData: argument jsonData
    parsed,             \* parseStudentData: what the call produced
    home,               \* Home page: the state of its useState hooks
    store,              \* Home page: the student store (studentInfo, lastUpdate)
    checkAuthCalls,     \* Home page: the invocations of checkAuth, each at its await
    fetchScheduleCalls, \* Home page: the invocations of fetchScheduleData that
                        \*   called fetchClassSchedule, each at its await
    route               \* Home page: the route the router shows

posVars == <<studentPlan, phaseWidth, positions, courseMap>>
ttVars == <<scheduleData, studentInfo, professorOverrides, courseSchedule>>
parseVars == <<jsonData, parsed>>
homeVars == <<home, store, checkAuthCalls, fetchScheduleCalls, route>>
vars == <<pc, posVars, ttVars, parseVars, homeVars>>

\* parseStudentData is not being called.
ParserIdle ==
    /\ jsonData = <<>>
    /\ parsed = <<>>

\* No Home page is mounted.
HomeIdle ==
    /\ home = <<>>
    /\ store = <<>>
    /\ checkAuthCalls = <<>>
    /\ fetchScheduleCalls = <<>>
    /\ route = ""

(***************************************************************************)
(* Bounds of the model.                                                    *)
(***************************************************************************)
MaxSemesters == 2   \* semesters of a student plan drawn as input
MaxLen == 3         \* entries of one semester's course list
MaxTotal == 4       \* entries of a whole plan
MaxEntries == 2     \* entries of a default schedule of schedule.json
MaxDays == 2        \* day names of a well-formed professor schedule text
MaxTokens == 3      \* tokens of an arbitrary professor schedule text

(***************************************************************************)
(* Configuration of styles/visualization (PHASE and COURSE_BOX).  The file *)
(* is not part of the sources at hand: the values are representative.      *)
(***************************************************************************)
BOXES_PER_COLUMN == 2
PHASE_MIN_WIDTH == 200
COURSE_BOX_MIN_WIDTH == 140
WIDTH_FACTOR_NUM == 8      \* COURSE_BOX.WIDTH_FACTOR = 8 / 10
WIDTH_FACTOR_DEN == 10
SPACING_Y == 60
HEIGHT == 50

(***************************************************************************)
(* Values.                                                                 *)
(***************************************************************************)
NoCourse == "null"   \* an entry that is null or has no .course
CourseIds == {"A", "B"}
CourseStatus == {"pending", "inProgress", "completed", "failed", "exempted", "planned"}

\* A StudentCourse: the course it wraps (its identifier) and its status.
StudentCourse(id, status) == [course |-> id, status |-> status]

Max(a, b) == IF a >= b THEN a ELSE b
Min(a, b) == IF a <= b THEN a ELSE b

\* `ghost-${semester.number}-${i}` (ToString renders a number in decimal)
GhostId(number, i) == "ghost-" \o ToString(number) \o "-" \o ToString(i)

(***************************************************************************)
(* calculateStudentPositions                                               *)
(***************************************************************************)
\* const boxWidth = Math.max(COURSE_BOX.MIN_WIDTH, phaseWidth * WIDTH_FACTOR)
BoxWidth(pw) ==
    Max(COURSE_BOX_MIN_WIDTH, (pw * WIDTH_FACTOR_NUM) \div WIDTH_FACTOR_DEN)

\* const xOffset = (phaseWidth - boxWidth) / 2
XOffset(pw) == (pw - BoxWidth(pw)) \div 2

\* Mutant of MapSet: an identifier already in the map keeps its first course.
MapSetKeepFirst(m, id, course) ==
    [k \in (DOMAIN m) \cup {id} |-> IF k \in DOMAIN m THEN m[k] ELSE course]

\* studentCourseMap.set(id, course)
MapSet(m, id, course) ==
    [k \in (DOMAIN m) \cup {id} |-> IF k = id THEN course ELSE m[k]]

\* Mutant of RealPosition: the row lacks the top margin.
RealPositionNoMargin(course, semesterIndex, courseIndex, pw) ==
    [courseId |-> course.course,
     x |-> semesterIndex * pw + (pw - BoxWidth(pw)) \div 2,
     y |-> courseIndex * SPACING_Y,
     width |-> BoxWidth(pw),
     height |-> HEIGHT,
     isGhost |-> FALSE]

\* The position pushed for the real course at courseIndex of the semester
\* at semesterIndex (both 0-based).
RealPosition(course, semesterIndex, courseIndex, pw) ==
    [courseId |-> course.course,
     x |-> semesterIndex * pw + XOffset(pw),
     y |-> courseIndex * SPACING_Y + SPACING_Y,
     width |-> BoxWidth(pw),
     height |-> HEIGHT,
     isGhost |-> FALSE]

\* Mutant of GhostPosition: the id carries the semester's index, not its number.
GhostPositionByIndex(semester, semesterIndex, i, pw) ==
    [courseId |-> GhostId(semesterIndex, i),
     x |-> semesterIndex * pw + (pw - BoxWidth(pw)) \div 2,
     y |-> i * SPACING_Y + SPACING_Y,
     width |-> BoxWidth(pw),
     height |-> HEIGHT,
     isGhost |-> TRUE]

\* The position pushed for the ghost box of slot i.
GhostPosition(semester, semesterIndex, i, pw) ==
    [courseId |-> GhostId(semester.number, i),
     x |-> semesterIndex * pw + XOffset(pw),
     y |-> i * SPACING_Y + SPACING_Y,
     width |-> BoxWidth(pw),
     height |-> HEIGHT,
     isGhost |-> TRUE]

\* Mutant of CoursesLoop: the courses beyond the column's capacity are dropped.
RECURSIVE CoursesLoopCapped(_, _, _, _, _)
CoursesLoopCapped(semester, semesterIndex, pw, c, acc) ==
    IF c > Len(semester.courses) \/ c > BOXES_PER_COLUMN THEN acc
    ELSE LET course == semester.courses[c] IN
         IF course.course = NoCourse
         THEN CoursesLoopCapped(semester, semesterIndex, pw, c + 1, acc)
         ELSE CoursesLoopCapped(semester, semesterIndex, pw, c + 1,
                [positions |-> Append(acc.positions,
                                  [courseId |-> course.course,
                                   x |-> semesterIndex * pw + (pw - BoxWidth(pw)) \div 2,
                                   y |-> (c - 1) * SPACING_Y + SPACING_Y,
                                   width |-> BoxWidth(pw),
                                   height |-> HEIGHT,
                                   isGhost |-> FALSE]),
                 courseMap |-> [k \in (DOMAIN acc.courseMap) \cup {course.course} |->
                                  IF k = course.course THEN course
                                  ELSE acc.courseMap[k]]])

\* semester.courses.forEach((course, courseIndex) => ...), from the 1-based
\* TLA+ index c on; acc = [positions, courseMap] built so far.
RECURSIVE CoursesLoop(_, _, _, _, _)
CoursesLoop(semester, semesterIndex, pw, c, acc) ==
    IF c > Len(semester.courses) THEN acc
    ELSE LET course == semester.courses[c] IN
         IF course.course = NoCourse
         THEN CoursesLoop(semester, semesterIndex, pw, c + 1, acc)
         ELSE CoursesLoop(semester, semesterIndex, pw, c + 1,
                [positions |-> Append(acc.positions,
                                  RealPosition(course, semesterIndex, c - 1, pw)),
                 courseMap |-> MapSet(acc.courseMap, course.course, course)])

\* Mutant of GhostLoop: the bound is off by one (i <= BOXES_PER_COLUMN).
RECURSIVE GhostLoopOffByOne(_, _, _, _, _)
GhostLoopOffByOne(semester, semesterIndex, pw, i, acc) ==
    IF ~(i <= BOXES_PER_COLUMN) THEN acc
    ELSE GhostLoopOffByOne(semester, semesterIndex, pw, i + 1,
           [positions |-> Append(acc.positions,
                             [courseId |-> GhostId(semester.number, i),
                              x |-> semesterIndex * pw + (pw - BoxWidth(pw)) \div 2,
                              y |-> i * SPACING_Y + SPACING_Y,
                              width |-> BoxWidth(pw),
                              height |-> HEIGHT,
                              isGhost |-> TRUE]),
            courseMap |-> acc.courseMap])

\* for (let i = semester.courses.length; i < BOXES_PER_COLUMN; i++)
RECURSIVE GhostLoop(_, _, _, _, _)
GhostLoop(semester, semesterIndex, pw, i, acc) ==
    IF ~(i < BOXES_PER_COLUMN) THEN acc
    ELSE GhostLoop(semester, semesterIndex, pw, i + 1,
           [positions |-> Append(acc.positions,
                             GhostPosition(semester, semesterIndex, i, pw)),
            courseMap |-> acc.courseMap])

\* studentPlan.semesters.forEach((semester, semesterIndex) => ...), from the
\* 1-based TLA+ index s on.
RECURSIVE SemestersLoop(_, _, _, _)
SemestersLoop(plan, pw, s, acc) ==
    IF s > Len(plan.semesters) THEN acc
    ELSE LET semester == plan.semesters[s]
             real == CoursesLoop(semester, s - 1, pw, 1, acc)
         IN SemestersLoop(plan, pw, s + 1,
               GhostLoop(semester, s - 1, pw, Len(semester.courses), real))

calculateStudentPositions(plan, pw) ==
    SemestersLoop(plan, pw, 1, [positions |-> <<>>, courseMap |-> <<>>])

(***************************************************************************)
(* Inputs of calculateStudentPositions.                                    *)
(***************************************************************************)
\* The entries a course list is drawn from: real courses (two of them with
\* the same identifier, to tell occurrences apart) and an invalid entry.
Entries ==
    {StudentCourse("A", "inProgress"), StudentCourse("A", "planned"),
     StudentCourse("B", "planned"), StudentCourse(NoCourse, "pending")}

RECURSIVE ListsOfLen(_)
ListsOfLen(n) ==
    IF n = 0 THEN {<<>>}
    ELSE {Append(l, e) : l \in ListsOfLen(n - 1), e \in Entries}

ListsUpTo(n) == UNION {ListsOfLen(k) : k \in 0..n}

\* The lists of n course lists with at most budget entries in all.
RECURSIVE CourseListsOf(_, _)
CourseListsOf(n, budget) ==
    IF n = 0 THEN {<<>>}
    ELSE UNION {{<<cs>> \o rest : rest \in CourseListsOf(n - 1, budget - Len(cs))} :
                  cs \in ListsUpTo(Min(MaxLen, budget))}

\* A plan numbers its semesters 1, 2, ... in list order.
MakePlan(lists) ==
    [semesters |-> [i \in 1..Len(lists) |-> [number |-> i, courses |-> lists[i]]]]

Plans == {MakePlan(l) : l \in UNION {CourseListsOf(n, MaxTotal) : n \in 0..MaxSemesters}}

\* phaseWidth: the default, one below COURSE_BOX.MIN_WIDTH, a wider one.
PhaseWidths == {PHASE_MIN_WIDTH, 100, 300}

(***************************************************************************)
(* Specification of the positioning: an input is drawn, the function runs. *)
(***************************************************************************)
\* No Timetable is mounted.
TimetableIdle ==
    /\ scheduleData = <<>>
    /\ studentInfo = <<>>
    /\ professorOverrides = <<>>
    /\ courseSchedule = <<>>

PosInit ==
    /\ pc = "input"
    /\ studentPlan \in Plans
    /\ phaseWidth \in PhaseWidths
    /\ positions = <<>>
    /\ courseMap = <<>>
    /\ TimetableIdle
    /\ ParserIdle
    /\ HomeIdle

CalculateStudentPositions ==
    /\ pc = "input"
    /\ LET r == calculateStudentPositions(studentPlan, phaseWidth) IN
         /\ positions' = r.positions
         /\ courseMap' = r.courseMap
    /\ pc' = "positioned"
    /\ UNCHANGED <<studentPlan, phaseWidth, ttVars, parseVars, homeVars>>

PosNext == CalculateStudentPositions

PosSpec == PosInit /\ [][PosNext]_vars

(***************************************************************************)
(* Properties of calculateStudentPositions.                                *)
(***************************************************************************)
Semesters == studentPlan.semesters
SemesterIdx == 1..Len(Semesters)
PositionIdx == 1..Len(positions)

\* The list indices (1-based) of the valid entries of a semester.
ValidIdx(semester) ==
    {c \in 1..Len(semester.courses) : semester.courses[c].course # NoCourse}

\* The x shared by the boxes of the column of the semester at 1-based index s.
ColumnX(s) == (s - 1) * phaseWidth + (phaseWidth - BoxWidth(phaseWidth)) \div 2

\* The y of row i (0-based).
RowY(i) == i * SPACING_Y + SPACING_Y

\* courseId starts with 'ghost-': it is one of the ids of that form that the
\* semester numbers and slot indices of the model can produce.
HasGhostPrefix(id) ==
    \E n \in 0..(MaxSemesters + 1), i \in 0..(BOXES_PER_COLUMN + 1) : id = GhostId(n, i)

\* The ghost positions of the semester at index s: the ghosts in its column
\* and the ghosts whose id carries its number.
GhostsOf(s) ==
    {j \in PositionIdx :
        /\ positions[j].isGhost \/ HasGhostPrefix(positions[j].courseId)
        /\ \/ positions[j].x = ColumnX(s)
           \/ \E i \in 0..(BOXES_PER_COLUMN + 1) :
                 positions[j].courseId = GhostId(Semesters[s].number, i)}

\* C1: a semester with k < BOXES_PER_COLUMN entries gets exactly
\* BOXES_PER_COLUMN - k ghost positions, each with isGhost = true and an id
\* starting with 'ghost-'; a semester with k >= BOXES_PER_COLUMN gets none.
C1_GhostPadding ==
    pc = "positioned" =>
        \A s \in SemesterIdx :
            LET k == Len(Semesters[s].courses) IN
            /\ Cardinality(GhostsOf(s)) =
                  (IF k < BOXES_PER_COLUMN THEN BOXES_PER_COLUMN - k ELSE 0)
            /\ \A j \in GhostsOf(s) :
                  positions[j].isGhost /\ HasGhostPrefix(positions[j].courseId)

\* A padded semester with one course next to a semester above the capacity.
C1_Witness ==
    /\ pc = "positioned"
    /\ Len(Semesters) = 2
    /\ Len(Semesters[1].courses) = 1
    /\ Len(Semesters[2].courses) > BOXES_PER_COLUMN
    /\ Cardinality(GhostsOf(1)) = BOXES_PER_COLUMN - 1
    /\ GhostsOf(2) = {}

(***************************************************************************)
(* C2                                                                      *)
(***************************************************************************)
RECURSIVE SumOfMax(_)
\* Sum over the first s semesters of max(courses.length, BOXES_PER_COLUMN).
SumOfMax(s) ==
    IF s = 0 THEN 0
    ELSE SumOfMax(s - 1) + Max(Len(Semesters[s].courses), BOXES_PER_COLUMN)

RECURSIVE SumOfInvalid(_)
\* The number of invalid entries in the first s semesters.
SumOfInvalid(s) ==
    IF s = 0 THEN 0
    ELSE SumOfInvalid(s - 1)
           + (Len(Semesters[s].courses) - Cardinality(ValidIdx(Semesters[s])))

\* The entry at list index c of semester s has its box: a real position in
\* the column of s, at the row of c.
HasBox(s, c) ==
    \E j \in PositionIdx :
        /\ ~positions[j].isGhost
        /\ positions[j].x = ColumnX(s)
        /\ positions[j].y = RowY(c - 1)

\* C2 as stated: positions.length is the sum over the semesters of
\* max(courses.length, BOXES_PER_COLUMN), and every entry of every course
\* list has its position.
C2_Original ==
    pc = "positioned" =>
        /\ Len(positions) = SumOfMax(Len(Semesters))
        /\ \A s \in SemesterIdx : \A c \in 1..Len(Semesters[s].courses) : HasBox(s, c)

\* C2 (amended): positions.length is that sum less the number of invalid
\* entries (null, or without a course), which are skipped; every valid entry
\* has its position, carrying its course identifier.
C2_LengthLessInvalid ==
    pc = "positioned" =>
        /\ Len(positions) = SumOfMax(Len(Semesters)) - SumOfInvalid(Len(Semesters))
        /\ \A s \in SemesterIdx : \A c \in 1..Len(Semesters[s].courses) :
              IF c \in ValidIdx(Semesters[s])
              THEN \E j \in PositionIdx :
                      /\ ~positions[j].isGhost
                      /\ positions[j].courseId = Semesters[s].courses[c].course
                      /\ positions[j].x = ColumnX(s)
                      /\ positions[j].y = RowY(c - 1)
              ELSE ~HasBox(s, c)

\* A plan with a semester above the capacity, an invalid entry and a padded
\* semester.
C2_Witness ==
    /\ pc = "positioned"
    /\ \E s \in SemesterIdx :
          /\ Len(Semesters[s].courses) > BOXES_PER_COLUMN
          /\ ValidIdx(Semesters[s]) # {}
          /\ Cardinality(ValidIdx(Semesters[s])) < Len(Semesters[s].courses)
    /\ \E s \in SemesterIdx : Len(Semesters[s].courses) < BOXES_PER_COLUMN
    /\ Len(positions) < SumOfMax(Len(Semesters))

(***************************************************************************)
(* C3                                                                      *)
(***************************************************************************)
\* The (semester, index) places of the valid entries with identifier id.
PlacesOf(id) ==
    {<<s, c>> \in SemesterIdx \X (1..MaxLen) :
        /\ c <= Len(Semesters[s].courses)
        /\ Semesters[s].courses[c].course = id}

\* p comes no later than q in (semester order, then list order).
NotAfter(p, q) == p[1] < q[1] \/ (p[1] = q[1] /\ p[2] <= q[2])

LastPlaceOf(id) ==
    CHOOSE q \in PlacesOf(id) : \A p \in PlacesOf(id) : NotAfter(p, q)

\* C3: the keys of courseMap are exactly the identifiers of the real courses
\* of the plan, none of them a ghost id, and each key maps to the last
\* occurrence of the identifier in (semester order, then list order).
C3_CourseMap ==
    pc = "positioned" =>
        /\ DOMAIN courseMap = {id \in CourseIds : PlacesOf(id) # {}}
        /\ \A id \in DOMAIN courseMap :
              /\ ~HasGhostPrefix(id)
              /\ LET q == LastPlaceOf(id) IN
                    courseMap[id] = Semesters[q[1]].courses[q[2]]

\* The identifier A occurs twice with different statuses, and ghosts exist.
C3_Witness ==
    /\ pc = "positioned"
    /\ \E p, q \in PlacesOf("A") :
          /\ p # q
          /\ NotAfter(p, q)
          /\ Semesters[p[1]].courses[p[2]] # Semesters[q[1]].courses[q[2]]
          /\ courseMap["A"] = Semesters[q[1]].courses[q[2]]
    /\ \E j \in PositionIdx : positions[j].isGhost

(***************************************************************************)
(* C4                                                                      *)
(***************************************************************************)
RECURSIVE BlockStart(_)
\* The number of positions pushed before those of the semester at index s.
BlockStart(s) ==
    IF s = 1 THEN 0
    ELSE BlockStart(s - 1) + Cardinality(ValidIdx(Semesters[s - 1]))
           + Max(0, BOXES_PER_COLUMN - Len(Semesters[s - 1].courses))

\* The indices in positions of the boxes of the semester at index s.
Block(s) == (BlockStart(s) + 1)..BlockStart(s + 1)

\* The rank (1-based) of list index c among the valid entries of a semester.
Rank(semester, c) == Cardinality({d \in ValidIdx(semester) : d <= c})

\* C4: the real course at list index c (0-based) of the semester at plan
\* index s (0-based) is placed at x = s * phaseWidth + (phaseWidth - boxWidth) / 2
\* and y = c * SPACING_Y + SPACING_Y, with boxWidth = max(MIN_WIDTH,
\* phaseWidth * WIDTH_FACTOR); the positions of one semester share their x and
\* the y of its real courses strictly increases with list order.
C4_RealPositions ==
    pc = "positioned" =>
        \A s \in SemesterIdx :
            /\ \A c \in ValidIdx(Semesters[s]) :
                  LET j == BlockStart(s) + Rank(Semesters[s], c)
                      p == positions[j]
                  IN /\ j \in PositionIdx
                     /\ ~p.isGhost
                     /\ p.courseId = Semesters[s].courses[c].course
                     /\ WIDTH_FACTOR_DEN * p.width =
                           Max(WIDTH_FACTOR_DEN * COURSE_BOX_MIN_WIDTH,
                               phaseWidth * WIDTH_FACTOR_NUM)
                     /\ 2 * p.x = 2 * (s - 1) * phaseWidth + (phaseWidth - p.width)
                     /\ p.y = (c - 1) * SPACING_Y + SPACING_Y
            /\ \A i, j \in Block(s) :
                  /\ positions[i].x = positions[j].x
                  /\ (i < j /\ ~positions[i].isGhost /\ ~positions[j].isGhost)
                        => positions[i].y < positions[j].y

\* Two real courses in the second semester, the later one after an invalid
\* entry, so that list index and rank differ.
C4_Witness ==
    /\ pc = "positioned"
    /\ Len(Semesters) = 2
    /\ Len(Semesters[2].courses) = 3
    /\ ValidIdx(Semesters[2]) = {1, 3}
    /\ \E i, j \in Block(2) :
          /\ i < j
          /\ positions[i].y = SPACING_Y
          /\ positions[j].y = 3 * SPACING_Y
          /\ positions[i].x = positions[j].x
          /\ positions[i].x > phaseWidth \div 2

(***************************************************************************)
(* C5                                                                      *)
(***************************************************************************)
\* C5: the ghost positions of a semester with number n and k entries are, in
\* this order, ghost-n-k, ..., ghost-n-(BOXES_PER_COLUMN - 1); the ghost of
\* slot i is in the semester's column at the row y = i * SPACING_Y + SPACING_Y;
\* no ghost is in the (x, y) cell of a real course.
C5_GhostSlots ==
    pc = "positioned" =>
        /\ \A s \in SemesterIdx :
              LET n == Semesters[s].number
                  k == Len(Semesters[s].courses)
                  first == BlockStart(s) + Cardinality(ValidIdx(Semesters[s]))
              IN /\ {j \in Block(s) : positions[j].isGhost}
                       = {first + (i - k) + 1 : i \in k..(BOXES_PER_COLUMN - 1)}
                 /\ \A i \in k..(BOXES_PER_COLUMN - 1) :
                       LET g == positions[first + (i - k) + 1] IN
                       /\ g.courseId = GhostId(n, i)
                       /\ g.x = ColumnX(s)
                       /\ g.y = i * SPACING_Y + SPACING_Y
        /\ \A g, r \in PositionIdx :
              (positions[g].isGhost /\ ~positions[r].isGhost)
                 => ~(positions[g].x = positions[r].x /\ positions[g].y = positions[r].y)

\* The spec's example in the second column: one real course, then the ghost
\* of slot 1 right below it.
C5_Witness ==
    /\ pc = "positioned"
    /\ Len(Semesters) = 2
    /\ Len(Semesters[1].courses) = 0
    /\ Len(Semesters[2].courses) = 1
    /\ ValidIdx(Semesters[2]) = {1}
    /\ Len(positions) = 2 * BOXES_PER_COLUMN
    /\ positions[BOXES_PER_COLUMN + 2].courseId = GhostId(2, 1)
    /\ positions[BOXES_PER_COLUMN + 2].y = 2 * SPACING_Y
    /\ positions[1].courseId = GhostId(1, 0)

(***************************************************************************)
(*                              TIMETABLE                                  *)
(*                                                                         *)
(* Configuration of config/visualization (TIMETABLE).  The file is not     *)
(* part of the sources at hand: the slot list is the one of the            *)
(* specification's example, the week is cut to two days.                   *)
(***************************************************************************)
TIME_SLOTS == <<[id |-> "08:00"], [id |-> "09:40"], [id |-> "11:20"]>>
DAYS == <<"Segunda", "Terca">>
DAYS_MAP == [Segunda |-> 0, Terca |-> 1]

SlotIds == {TIME_SLOTS[i].id : i \in 1..Len(TIME_SLOTS)}
DayIndexes == 0..(Len(DAYS) - 1)

\* A cell of the grid that holds no course (undefined).
Undefined == [course |-> "undefined", status |-> "undefined"]

(***************************************************************************)
(* Strings that are split are sequences of tokens: the separators ' ',     *)
(* '/' and '-' and words that contain none of them.                        *)
(***************************************************************************)
\* The JavaScript string a token sequence stands for.
RECURSIVE Join(_)
Join(tokens) == IF tokens = <<>> THEN "" ELSE Head(tokens) \o Join(Tail(tokens))

\* String.prototype.split(sep): the pieces between the occurrences of sep;
\* cur is the piece being read.
RECURSIVE SplitFrom(_, _, _)
SplitFrom(tokens, sep, cur) ==
    IF tokens = <<>> THEN <<cur>>
    ELSE IF Head(tokens) = sep
         THEN <<cur>> \o SplitFrom(Tail(tokens), sep, <<>>)
         ELSE SplitFrom(Tail(tokens), sep, Append(cur, Head(tokens)))

Split(tokens, sep) == SplitFrom(tokens, sep, <<>>)

(***************************************************************************)
(* currentCourses                                                          *)
(***************************************************************************)
\* semesters.flatMap(semester => semester.courses)
RECURSIVE FlatMapCourses(_)
FlatMapCourses(semesters) ==
    IF semesters = <<>> THEN <<>>
    ELSE Head(semesters).courses \o FlatMapCourses(Tail(semesters))

\* A variant of the filter that keeps the courses of every status.
FilterInProgressKeepAll(courses) == courses

\* .filter(course => course.status === CourseStatus.IN_PROGRESS)
RECURSIVE FilterInProgress(_)
FilterInProgress(courses) ==
    IF courses = <<>> THEN <<>>
    ELSE (IF Head(courses).status = "inProgress" THEN <<Head(courses)>> ELSE <<>>)
            \o FilterInProgress(Tail(courses))

\* studentInfo.currentPlan is <<>> (null) or <<plan>>.
currentCourses(info) ==
    IF info.currentPlan = <<>> THEN <<>>
    ELSE FilterInProgress(FlatMapCourses(info.currentPlan[1].semesters))

(***************************************************************************)
(* handleProfessorSelect                                                   *)
(***************************************************************************)
\* Mutant of DaysLoop: a day name that is not in DAYS_MAP ends the loop.
RECURSIVE DaysLoopStopAtUnknown(_, _)
DaysLoopStopAtUnknown(daysList, startTime) ==
    IF daysList = <<>> THEN <<>>
    ELSE IF Join(Head(daysList)) \notin DOMAIN DAYS_MAP \/ startTime = "" THEN <<>>
         ELSE <<[day |-> DAYS_MAP[Join(Head(daysList))], startTime |-> startTime]>>
                 \o DaysLoopStopAtUnknown(Tail(daysList), startTime)

\* daysList.forEach(dayName => ...): one entry per day name of DAYS_MAP,
\* none when startTime is empty.
RECURSIVE DaysLoop(_, _)
DaysLoop(daysList, startTime) ==
    IF daysList = <<>> THEN <<>>
    ELSE LET dayName == Join(Head(daysList)) IN
         (IF dayName \notin DOMAIN DAYS_MAP \/ startTime = ""
          THEN <<>>
          ELSE <<[day |-> DAYS_MAP[dayName], startTime |-> startTime]>>)
            \o DaysLoop(Tail(daysList), startTime)

\* The schedule entries parsed from a professor's schedule text.
ParseSchedule(scheduleText) ==
    IF scheduleText = <<>> THEN <<>>
    ELSE LET parts == Split(scheduleText, " ") IN
         IF Len(parts) >= 2
         THEN LET daysList == Split(parts[1], "/")
                  startTime == Join(Split(parts[2], "-")[1])
              IN DaysLoop(daysList, startTime)
         ELSE <<>>

\* professors?.[courseId]?.find(p => p.professorId === professorId):
\* <<>> when there is none, else <<the first match>>.
FindProfessor(data, courseId, professorId) ==
    LET list == data.professors[courseId]
        hits == {i \in 1..Len(list) : list[i].professorId = professorId}
    IN IF hits = {} THEN <<>>
       ELSE <<list[CHOOSE i \in hits : \A j \in hits : i <= j]>>

\* A variant of the filter that keeps every override.
FilterOthersKeepAll(prev, courseId) == prev

\* prev.filter(o => o.courseId !== courseId)
RECURSIVE FilterOthers(_, _)
FilterOthers(prev, courseId) ==
    IF prev = <<>> THEN <<>>
    ELSE (IF Head(prev).courseId # courseId THEN <<Head(prev)>> ELSE <<>>)
            \o FilterOthers(Tail(prev), courseId)

\* The professorOverrides after handleProfessorSelect(course, professorId).
handleProfessorSelect(data, prev, course, professorId) ==
    LET professorData == FindProfessor(data, course.course, professorId) IN
    IF professorData = <<>> THEN prev
    ELSE Append(FilterOthers(prev, course.course),
                [courseId |-> course.course,
                 professorId |-> professorId,
                 schedule |-> ParseSchedule(professorData[1].schedule)])

(***************************************************************************)
(* courseSchedule                                                          *)
(***************************************************************************)
\* The grid with every (slot, day) cell undefined.
EmptySchedule == [slot \in SlotIds |-> [day \in DayIndexes |-> Undefined]]

\* TIME_SLOTS.findIndex(slot => slot.id === startTime), 0-based, -1 if none.
FindSlotIndex(startTime) ==
    LET hits == {i \in 1..Len(TIME_SLOTS) : TIME_SLOTS[i].id = startTime} IN
    IF hits = {} THEN -1 ELSE (CHOOSE i \in hits : \A j \in hits : i <= j) - 1

\* Mutant of WriteCell: a cell that holds a course keeps it.
WriteCellIfEmpty(schedule, slotId, day, course) ==
    IF schedule[slotId][day].course = "undefined"
    THEN [schedule EXCEPT ![slotId][day] = course]
    ELSE schedule

\* schedule[slotId][day] = course
WriteCell(schedule, slotId, day, course) ==
    [schedule EXCEPT ![slotId][day] = course]

\* Mutant of ApplyEntry: the following slot is not written.
ApplyEntryOneSlot(schedule, entry, course) ==
    IF FindSlotIndex(entry.startTime) = -1 THEN schedule
    ELSE [schedule EXCEPT ![entry.startTime][entry.day] = course]

\* The body of courseTimes.forEach / override.schedule.forEach.
ApplyEntry(schedule, entry, course) ==
    LET startSlotIndex == FindSlotIndex(entry.startTime) IN
    IF startSlotIndex = -1 THEN schedule
    ELSE LET first == WriteCell(schedule, entry.startTime, entry.day, course) IN
         IF startSlotIndex + 1 < Len(TIME_SLOTS)
         THEN WriteCell(first, TIME_SLOTS[startSlotIndex + 2].id, entry.day, course)
         ELSE first

\* Mutant of ApplyEntries: an entry whose start time is no slot ends the loop.
RECURSIVE ApplyEntriesStopAtUnknown(_, _, _)
ApplyEntriesStopAtUnknown(schedule, entries, course) ==
    IF entries = <<>> \/ FindSlotIndex(Head(entries).startTime) = -1 THEN schedule
    ELSE ApplyEntriesStopAtUnknown(
            LET i == FindSlotIndex(Head(entries).startTime)
                first == [schedule EXCEPT ![Head(entries).startTime][Head(entries).day] = course]
            IN IF i + 1 < Len(TIME_SLOTS)
               THEN [first EXCEPT ![TIME_SLOTS[i + 2].id][Head(entries).day] = course]
               ELSE first,
            Tail(entries), course)

\* forEach over the entries of a default schedule or of an override.
RECURSIVE ApplyEntries(_, _, _)
ApplyEntries(schedule, entries, course) ==
    IF entries = <<>> THEN schedule
    ELSE ApplyEntries(ApplyEntry(schedule, Head(entries), course), Tail(entries), course)

\* new Set(professorOverrides.map(override => override.courseId))
OverriddenCourses(overrides) == {overrides[i].courseId : i \in 1..Len(overrides)}

\* Mutant of DefaultsLoop: the courses with an override are not skipped.
RECURSIVE DefaultsLoopNoSkip(_, _, _, _)
DefaultsLoopNoSkip(schedule, courses, overrides, data) ==
    IF courses = <<>> THEN schedule
    ELSE IF ~data.defaults[Head(courses).course].isArray
         THEN DefaultsLoopNoSkip(schedule, Tail(courses), overrides, data)
         ELSE DefaultsLoopNoSkip(
                 ApplyEntries(schedule, data.defaults[Head(courses).course].entries,
                              Head(courses)),
                 Tail(courses), overrides, data)

\* currentCourses.forEach: the default schedules of the courses without an
\* override.  data.defaults[courseId] is [isArray, entries].
RECURSIVE DefaultsLoop(_, _, _, _)
DefaultsLoop(schedule, courses, overrides, data) ==
    IF courses = <<>> THEN schedule
    ELSE LET course == Head(courses)
             courseTimes == data.defaults[course.course]
         IN IF course.course \in OverriddenCourses(overrides) \/ ~courseTimes.isArray
            THEN DefaultsLoop(schedule, Tail(courses), overrides, data)
            ELSE DefaultsLoop(ApplyEntries(schedule, courseTimes.entries, course),
                              Tail(courses), overrides, data)

\* currentCourses.find(c => c.course.id === courseId): <<>> or <<the first>>.
FindCourse(courses, courseId) ==
    LET hits == {i \in 1..Len(courses) : courses[i].course = courseId} IN
    IF hits = {} THEN <<>>
    ELSE <<courses[CHOOSE i \in hits : \A j \in hits : i <= j]>>

\* professorOverrides.forEach
RECURSIVE OverridesLoop(_, _, _)
OverridesLoop(schedule, overrides, courses) ==
    IF overrides = <<>> THEN schedule
    ELSE LET course == FindCourse(courses, Head(overrides).courseId) IN
         IF course = <<>> THEN OverridesLoop(schedule, Tail(overrides), courses)
         ELSE OverridesLoop(ApplyEntries(schedule, Head(overrides).schedule, course[1]),
                            Tail(overrides), courses)

\* A variant of the memo that processes the overrides before the defaults.
ComputeScheduleOverridesFirst(courses, overrides, data) ==
    DefaultsLoop(OverridesLoop(EmptySchedule, overrides, courses),
                 courses, overrides, data)

\* The courseSchedule memo.
ComputeSchedule(courses, overrides, data) ==
    OverridesLoop(DefaultsLoop(EmptySchedule, courses, overrides, data),
                  overrides, courses)

(***************************************************************************)
(* Inputs of the Timetable.                                                *)
(***************************************************************************)
\* The start times of schedule.json: the slots and one that is no slot.
StartTimes == SlotIds \cup {"25:00"}
ScheduleEntries == [day : DayIndexes, startTime : StartTimes]

RECURSIVE EntryListsOfLen(_)
EntryListsOfLen(n) ==
    IF n = 0 THEN {<<>>}
    ELSE {Append(l, e) : l \in EntryListsOfLen(n - 1), e \in ScheduleEntries}

\* scheduleData[courseId]: an array of entries, or no array.
NoArray == [isArray |-> FALSE, entries |-> <<>>]
ArrayOf(entries) == [isArray |-> TRUE, entries |-> entries]

Professor(id, text) == [professorId |-> id, schedule |-> text]
ProfessorIds == {"P1", "P2", "P9"}

\* The professors of the schedule data with varied default schedules: for
\* A one who teaches on two days; for B one who teaches on the first two
\* slots and one whose start time is no slot.
FixedProfessors ==
    [A |-> <<Professor("P1", <<"Segunda", "/", "Terca", " ", "09:40", "-", "11:20">>)>>,
     B |-> <<Professor("P1", <<"Segunda", " ", "08:00", "-", "09:40">>),
             Professor("P2", <<"Terca", " ", "07:30", "-", "09:10">>)>>]

\* Schedule data with varied default schedules: any list of entries for A;
\* none, or one entry on the first day, for B.
VariedDefaults ==
    {[defaults |-> [A |-> ArrayOf(a), B |-> b], professors |-> FixedProfessors] :
        a \in UNION {EntryListsOfLen(n) : n \in 0..MaxEntries},
        b \in {NoArray} \cup {ArrayOf(<<[day |-> 0, startTime |-> t]>>) : t \in StartTimes}}

\* The studentInfo props: no plan; A and B in progress in either order, in
\* one semester or two; one of them in progress; none.
Info(lists) == [currentPlan |-> <<MakePlan(lists)>>]
StudentInfos ==
    {[currentPlan |-> <<>>],
     Info(<<<<StudentCourse("A", "inProgress"), StudentCourse("B", "inProgress")>>>>),
     Info(<<<<StudentCourse("B", "inProgress")>>, <<StudentCourse("A", "inProgress")>>>>),
     Info(<<<<StudentCourse("A", "completed")>>,
            <<StudentCourse("B", "inProgress"), StudentCourse("A", "inProgress")>>>>),
     Info(<<<<StudentCourse("A", "inProgress"), StudentCourse("B", "planned")>>>>),
     Info(<<<<StudentCourse("B", "completed")>>, <<StudentCourse("A", "planned")>>>>)}

(***************************************************************************)
(* Specification of the Timetable: it is mounted with a studentInfo; the   *)
(* user selects professors and the parent passes a new studentInfo.  Every *)
(* step ends with the render that recomputes the courseSchedule memo.      *)
(***************************************************************************)
PositionsIdle ==
    /\ studentPlan = <<>>
    /\ phaseWidth = 0
    /\ positions = <<>>
    /\ courseMap = <<>>

\* useState([]) and the first render.
Mount(data) ==
    /\ pc = "timetable"
    /\ scheduleData = data
    /\ studentInfo \in StudentInfos
    /\ professorOverrides = <<>>
    /\ courseSchedule = ComputeSchedule(currentCourses(studentInfo), <<>>, data)
    /\ PositionsIdle
    /\ ParserIdle
    /\ HomeIdle

\* CourseStats calls onProfessorSelect for one of the courses it was given.
HandleProfessorSelect ==
    /\ pc = "timetable"
    /\ \E i \in 1..Len(currentCourses(studentInfo)), professorId \in ProfessorIds :
          professorOverrides' =
              handleProfessorSelect(scheduleData, professorOverrides,
                                    currentCourses(studentInfo)[i], professorId)
    /\ courseSchedule' =
          ComputeSchedule(currentCourses(studentInfo), professorOverrides', scheduleData)
    /\ UNCHANGED <<pc, scheduleData, studentInfo, posVars, parseVars, homeVars>>

\* The parent renders the Timetable with another studentInfo.
SetStudentInfo ==
    /\ pc = "timetable"
    /\ \E info \in StudentInfos : studentInfo' = info
    /\ courseSchedule' =
          ComputeSchedule(currentCourses(studentInfo'), professorOverrides, scheduleData)
    /\ UNCHANGED <<pc, scheduleData, professorOverrides, posVars, parseVars, homeVars>>

TTNext == HandleProfessorSelect \/ SetStudentInfo

TTInit == \E data \in VariedDefaults : Mount(data)

TTSpec == TTInit /\ [][TTNext]_vars

(***************************************************************************)
(* Properties of the Timetable grid.                                       *)
(***************************************************************************)
CurrentCourses == currentCourses(studentInfo)
InProgressIds == {CurrentCourses[i].course : i \in 1..Len(CurrentCourses)}
Cells == SlotIds \X DayIndexes

\* The overrides stored for a course.
OverridesOf(id) ==
    {i \in 1..Len(professorOverrides) : professorOverrides[i].courseId = id}

\* The effective schedule of a course: its override's entries if it has an
\* override, else its default entries (none if it has no default schedule).
Effective(id) ==
    IF OverridesOf(id) # {}
    THEN professorOverrides[CHOOSE i \in OverridesOf(id) : TRUE].schedule
    ELSE scheduleData.defaults[id].entries

\* The place (1-based) of a slot id in TIME_SLOTS.
SlotPlace(slotId) == CHOOSE i \in 1..Len(TIME_SLOTS) : TIME_SLOTS[i].id = slotId

\* The cells a schedule entry claims: the one at its start time and the one
\* at the following slot, if there is one; none if its start is no slot.
Claimed(entry) ==
    IF entry.startTime \notin SlotIds THEN {}
    ELSE {<<entry.startTime, entry.day>>}
           \cup (IF SlotPlace(entry.startTime) < Len(TIME_SLOTS)
                 THEN {<<TIME_SLOTS[SlotPlace(entry.startTime) + 1].id, entry.day>>}
                 ELSE {})

ClaimedBy(id) == UNION {Claimed(Effective(id)[k]) : k \in 1..Len(Effective(id))}

\* The cells of the grid that hold a course.
CellsOf(id) == {cell \in Cells : courseSchedule[cell[1]][cell[2]].course = id}

\* C6: an in-progress course with a single effective entry {d, s}, s a slot
\* id, whose cells no other in-progress course claims, is in the cells
\* (s, d) and (slot after s, d) - in (s, d) alone if s is the last slot -
\* and in no other cell.
C6_TwoSlotExpansion ==
    \A id \in InProgressIds :
        (/\ Len(Effective(id)) = 1
         /\ Effective(id)[1].startTime \in SlotIds
         /\ \A other \in InProgressIds \ {id} :
               ClaimedBy(other) \cap Claimed(Effective(id)[1]) = {})
        => LET s == Effective(id)[1].startTime
               d == Effective(id)[1].day
           IN CellsOf(id) =
                 IF SlotPlace(s) = Len(TIME_SLOTS)
                 THEN {<<s, d>>}
                 ELSE {<<s, d>>, <<TIME_SLOTS[SlotPlace(s) + 1].id, d>>}

\* Two courses side by side: A by default on the last slot of the second
\* day (one cell), B by default on the first slot of the first day (two).
C6_Witness ==
    /\ InProgressIds = {"A", "B"}
    /\ professorOverrides = <<>>
    /\ Effective("A") = <<[day |-> 1, startTime |-> TIME_SLOTS[Len(TIME_SLOTS)].id]>>
    /\ Effective("B") = <<[day |-> 0, startTime |-> TIME_SLOTS[1].id]>>
    /\ CellsOf("A") = {<<TIME_SLOTS[Len(TIME_SLOTS)].id, 1>>}
    /\ CellsOf("B") = {<<TIME_SLOTS[1].id, 0>>, <<TIME_SLOTS[2].id, 0>>}

\* The rank of a course in the order of processing: the courses without an
\* override in the order of currentCourses, then the overrides in the order
\* of professorOverrides.
ProcessingRank(id) ==
    IF OverridesOf(id) # {}
    THEN Len(CurrentCourses) + (CHOOSE i \in OverridesOf(id) : TRUE)
    ELSE CHOOSE i \in 1..Len(CurrentCourses) :
            /\ CurrentCourses[i].course = id
            /\ \A j \in 1..Len(CurrentCourses) : CurrentCourses[j].course = id => j <= i

Claimants(cell) == {id \in InProgressIds : cell \in ClaimedBy(id)}

\* C8: a cell that two in-progress courses claim holds the one processed
\* later, and not the other.
C8_LastWriteWins ==
    \A cell \in Cells :
        Cardinality(Claimants(cell)) >= 2 =>
            \E id \in Claimants(cell) :
                /\ \A other \in Claimants(cell) : ProcessingRank(other) <= ProcessingRank(id)
                /\ courseSchedule[cell[1]][cell[2]].course = id
                /\ \A other \in Claimants(cell) \ {id} : cell \notin CellsOf(other)

\* B, first in the plan, has an override and A, after it, its default
\* schedule; they claim a common cell, which holds B; and two defaults
\* collide in another state, where the later course of the plan wins.
C8_Witness ==
    \E cell \in Cells :
        /\ Claimants(cell) = {"A", "B"}
        /\ OverridesOf("B") # {}
        /\ OverridesOf("A") = {}
        /\ CurrentCourses[1].course = "B"
        /\ CurrentCourses[Len(CurrentCourses)].course = "A"
        /\ courseSchedule[cell[1]][cell[2]].course = "B"
        /\ CellsOf("A") # {}

\* The entries of a list whose start time is a slot id.
RECURSIVE KnownStarts(_)
KnownStarts(entries) ==
    IF entries = <<>> THEN <<>>
    ELSE (IF Head(entries).startTime \in SlotIds THEN <<Head(entries)>> ELSE <<>>)
            \o KnownStarts(Tail(entries))

\* The schedule data and the overrides without the entries whose start time
\* is no slot id.
KnownData ==
    [defaults |-> [id \in DOMAIN scheduleData.defaults |->
                     [isArray |-> scheduleData.defaults[id].isArray,
                      entries |-> KnownStarts(scheduleData.defaults[id].entries)]],
     professors |-> scheduleData.professors]

KnownOverrides ==
    [i \in 1..Len(professorOverrides) |->
        [courseId |-> professorOverrides[i].courseId,
         professorId |-> professorOverrides[i].professorId,
         schedule |-> KnownStarts(professorOverrides[i].schedule)]]

\* C9: the entries whose start time is no slot id change no cell: the grid
\* is the one computed without them, and a course is only in cells that its
\* entries with a known start claim.
C9_UnknownStartSkipped ==
    /\ courseSchedule = ComputeSchedule(CurrentCourses, KnownOverrides, KnownData)
    /\ \A id \in InProgressIds : CellsOf(id) \subseteq ClaimedBy(id)

\* A's default schedule starts with an entry at an unknown time, followed
\* by one at a slot, which is applied; B's override has only an unknown
\* start and keeps B out of the grid.
C9_Witness ==
    /\ InProgressIds = {"A", "B"}
    /\ OverridesOf("A") = {}
    /\ Len(Effective("A")) = 2
    /\ Effective("A")[1].startTime \notin SlotIds
    /\ Effective("A")[2].startTime \in SlotIds
    /\ CellsOf("A") = Claimed(Effective("A")[2])
    /\ \E i \in 1..Len(professorOverrides) :
          /\ professorOverrides[i].schedule # <<>>
          /\ KnownStarts(professorOverrides[i].schedule) = <<>>

(***************************************************************************)
(* Specification of the Timetable with varied professor schedule texts.    *)
(***************************************************************************)
DayNames == {"Segunda", "Terca", "Domingo"}   \* Domingo is not in DAYS_MAP
TextStarts == {"08:00", "11:20", "07:30"}      \* 07:30 is no slot
TextEnds == {"09:40", "13:00"}

RECURSIVE DayListsOfLen(_)
DayListsOfLen(n) ==
    IF n = 0 THEN {<<>>}
    ELSE {Append(l, d) : l \in DayListsOfLen(n - 1), d \in DayNames}

DayLists == UNION {DayListsOfLen(n) : n \in 1..MaxDays}

\* The text 'D1/D2/.../Dn start-end'.
RECURSIVE JoinDays(_)
JoinDays(days) ==
    IF Len(days) = 1 THEN <<days[1]>>
    ELSE <<Head(days), "/">> \o JoinDays(Tail(days))

WellFormed(days, start, end) == JoinDays(days) \o <<" ", start, "-", end>>

WellFormedTexts ==
    {WellFormed(days, start, end) : days \in DayLists, start \in TextStarts, end \in TextEnds}

\* Any short text over day names, separators and a time.
Tokens == {"Segunda", "Domingo", "/", " ", "-", "08:00"}

RECURSIVE TextsOfLen(_)
TextsOfLen(n) ==
    IF n = 0 THEN {<<>>}
    ELSE {Append(t, k) : t \in TextsOfLen(n - 1), k \in Tokens}

ScheduleTexts == WellFormedTexts \cup UNION {TextsOfLen(n) : n \in 0..MaxTokens}

\* Schedule data with a varied schedule text for A's professor.
VariedProfessors ==
    {[defaults |->
         [A |-> ArrayOf(<<[day |-> 0, startTime |-> "08:00"],
                          [day |-> 1, startTime |-> "11:20"]>>),
          B |-> ArrayOf(<<[day |-> 0, startTime |-> "09:40"]>>)],
      professors |->
         [A |-> <<Professor("P1", text)>>,
          B |-> <<Professor("P1", <<"Terca", " ", "09:40", "-", "11:20">>)>>]] :
        text \in ScheduleTexts}

ProfInit == \E data \in VariedProfessors : Mount(data)

ProfSpec == ProfInit /\ [][TTNext]_vars

\* The cells that the default schedule of a course claims.
DefaultClaimed(id) ==
    UNION {Claimed(scheduleData.defaults[id].entries[k]) :
              k \in 1..Len(scheduleData.defaults[id].entries)}

\* C7: an in-progress course X with a default schedule and an override is
\* only in cells that the override's entries claim, in every such cell that
\* no other course claims, in no cell when the override has no entries, and
\* in no cell that only its default schedule claims.
C7_OverridePrecedence ==
    \A id \in InProgressIds :
        (OverridesOf(id) # {} /\ scheduleData.defaults[id].isArray
            /\ scheduleData.defaults[id].entries # <<>>)
        => LET o == professorOverrides[CHOOSE i \in OverridesOf(id) : TRUE]
               claimed == UNION {Claimed(o.schedule[k]) : k \in 1..Len(o.schedule)}
           IN /\ CellsOf(id) \subseteq claimed
              /\ o.schedule = <<>> => CellsOf(id) = {}
              /\ \A cell \in DefaultClaimed(id) \ claimed : cell \notin CellsOf(id)
              /\ \A cell \in claimed :
                    (\A other \in InProgressIds \ {id} : cell \notin ClaimedBy(other))
                       => cell \in CellsOf(id)

\* A has a default schedule and an override without entries and is in no
\* cell; B has a default schedule and an override and is in the override's
\* cells only.
C7_Witness ==
    /\ InProgressIds = {"A", "B"}
    /\ OverridesOf("A") # {} /\ OverridesOf("B") # {}
    /\ Effective("A") = <<>>
    /\ DefaultClaimed("A") # {}
    /\ CellsOf("A") = {}
    /\ CellsOf("B") = {<<"09:40", 1>>, <<"11:20", 1>>}
    /\ DefaultClaimed("B") \cap CellsOf("B") = {}

\* The entries for the day names of DAYS_MAP among days, in order.
RECURSIVE ExpectedEntries(_, _)
ExpectedEntries(days, start) ==
    IF days = <<>> THEN <<>>
    ELSE (IF Head(days) \in DOMAIN DAYS_MAP
          THEN <<[day |-> DAYS_MAP[Head(days)], startTime |-> start]>>
          ELSE <<>>)
            \o ExpectedEntries(Tail(days), start)

\* The schedule text of the professor an override names.
TextOf(override) ==
    FindProfessor(scheduleData, override.courseId, override.professorId)[1].schedule

\* C10: the override stored for a professor whose schedule text is
\* 'D1/.../Dn start-end' has one entry {day index of Di, start} for each Di
\* in DAYS_MAP, in the listed order, and no other entry, whatever the end.
C10_OverrideEntries ==
    \A i \in 1..Len(professorOverrides) :
        \A days \in DayLists, start \in TextStarts, end \in TextEnds :
            TextOf(professorOverrides[i]) = WellFormed(days, start, end)
               => professorOverrides[i].schedule = ExpectedEntries(days, start)

\* The override stored for 'Domingo/Terca 11:20-13:00': the one entry of Terca.
C10_Witness ==
    \E i \in 1..Len(professorOverrides) :
        /\ professorOverrides[i].courseId = "A"
        /\ TextOf(professorOverrides[i]) = WellFormed(<<"Domingo", "Terca">>, "11:20", "13:00")
        /\ professorOverrides[i].schedule = <<[day |-> 1, startTime |-> "11:20"]>>

(***************************************************************************)
(* parseStudentData (src/lib/parsers/student-parser.ts)                    *)
(*                                                                         *)
(* Grades are counted in tenths: 60 is the grade 6.  The array semesters   *)
(* of the function is a JavaScript array, which may have holes.            *)
(***************************************************************************)
\* PHASE.TOTAL_SEMESTERS of styles/visualization: a representative value.
TOTAL_SEMESTERS == 2

\* The courses of the loaded curriculum, by code.
Catalog == [A |-> [id |-> "A", credits |-> 4], B |-> [id |-> "B", credits |-> 6]]

\* getCourseInfo of curriculum-parser: the course of the code, if there is
\* one (a list of at most one course).
getCourseInfo(courseCode) ==
    IF courseCode \in DOMAIN Catalog THEN <<Catalog[courseCode]>> ELSE <<>>

\* The number that is not a number.
NaN == -1

\* parseFloat on the grade texts of the raw records, in tenths.
parseFloat(text) ==
    CASE text = "4.5" -> 45
      [] text = "6" -> 60
      [] text = "9.5" -> 95
      [] OTHER -> NaN

\* a >= b on numbers: false when a is NaN.
GreaterOrEqual(a, b) == a # NaN /\ a >= b

\* classCode || undefined
ClassOf(classCode) == IF classCode = "" THEN <<>> ELSE <<classCode>>

\* The StudentCourse pushed for a coursed or a planned course; grade is a
\* list of at most one number.
ParsedCourse(courseInfo, status, grade, classCode) ==
    [id |-> courseInfo.id, credits |-> courseInfo.credits, course |-> courseInfo.id,
     status |-> status, grade |-> grade, class |-> ClassOf(classCode)]

\* A variant that fails the grade 6.
CoursedStatusAbove(gradeValue) ==
    IF gradeValue # NaN /\ gradeValue > 60 THEN "completed" ELSE "failed"

\* gradeValue >= 6 ? COMPLETED : FAILED
CoursedStatus(gradeValue) ==
    IF GreaterOrEqual(gradeValue, 60) THEN "completed" ELSE "failed"

\* The inner forEach over the entries of one coursed semester.
RECURSIVE CoursedCourses(_)
CoursedCourses(semesterCourses) ==
    IF semesterCourses = <<>> THEN <<>>
    ELSE LET entry == Head(semesterCourses)
             courseInfo == getCourseInfo(entry.courseCode)
             gradeValue == IF entry.grade # "" THEN parseFloat(entry.grade) ELSE 0
         IN  (IF courseInfo = <<>> THEN <<>>
              ELSE <<ParsedCourse(courseInfo[1], CoursedStatus(gradeValue),
                                  <<gradeValue>>, entry.classCode)>>)
                \o CoursedCourses(Tail(semesterCourses))

\* courses.reduce((sum, course) => sum + course.credits, 0)
RECURSIVE SumCredits(_)
SumCredits(courses) ==
    IF courses = <<>> THEN 0
    ELSE Head(courses).credits + SumCredits(Tail(courses))

\* An index of the array semesters that was never assigned.
Hole == [number |-> 0, courses |-> <<>>, totalCredits |-> 0]

\* semesters[index] = value, index counted from 0: the array grows, with
\* holes, when the index is beyond its end.
AssignAt(semesters, index, value) ==
    IF index < Len(semesters) THEN [semesters EXCEPT ![index + 1] = value]
    ELSE semesters \o [k \in 1..(index - Len(semesters)) |-> Hole] \o <<value>>

\* semesters[index], index counted from 0: undefined (a Hole) outside the
\* array.
At(semesters, index) ==
    IF index >= 0 /\ index < Len(semesters) THEN semesters[index + 1] ELSE Hole

\* jsonData.coursed.forEach, from semesterIndex on.
RECURSIVE CoursedLoop(_, _, _)
CoursedLoop(coursed, semesterIndex, semesters) ==
    IF semesterIndex >= Len(coursed) THEN semesters
    ELSE LET semesterNumber == semesterIndex + 1
             courses == CoursedCourses(coursed[semesterIndex + 1])
         IN  CoursedLoop(coursed, semesterIndex + 1,
                 IF Len(courses) > 0
                 THEN AssignAt(semesters, semesterNumber - 1,
                               [number |-> semesterNumber, courses |-> courses,
                                totalCredits |-> SumCredits(courses)])
                 ELSE semesters)

\* The loop that fills the gaps, from i on.
RECURSIVE FillGaps(_, _)
FillGaps(semesters, i) ==
    IF i >= TOTAL_SEMESTERS THEN semesters
    ELSE FillGaps(IF At(semesters, i) = Hole
                  THEN AssignAt(semesters, i,
                                [number |-> i + 1, courses |-> <<>>, totalCredits |-> 0])
                  ELSE semesters,
                  i + 1)

\* semesterNumber === currentSemesterNum ? IN_PROGRESS : PLANNED
PlannedStatus(semesterNumber, currentSemesterNum) ==
    IF semesterNumber = currentSemesterNum THEN "inProgress" ELSE "planned"

\* The inner forEach over the entries of one plan semester.
RECURSIVE PlannedCourses(_, _)
PlannedCourses(semesterCourses, status) ==
    IF semesterCourses = <<>> THEN <<>>
    ELSE LET entry == Head(semesterCourses)
             courseInfo == getCourseInfo(entry.courseCode)
         IN  (IF courseInfo = <<>> THEN <<>>
              ELSE <<ParsedCourse(courseInfo[1], status, <<>>, entry.classCode)>>)
                \o PlannedCourses(Tail(semesterCourses), status)

\* A variant that leaves totalCredits as the coursed loop computed it.
RECURSIVE PlanLoopStaleCredits(_, _, _, _)
PlanLoopStaleCredits(plan, planIndex, currentSemesterNum, semesters) ==
    IF planIndex >= Len(plan) THEN [threw |-> FALSE, semesters |-> semesters]
    ELSE LET semesterNumber == currentSemesterNum + planIndex
             targetSemester == At(semesters, semesterNumber - 1)
             courses == targetSemester.courses
                          \o PlannedCourses(plan[planIndex + 1],
                                 PlannedStatus(semesterNumber, currentSemesterNum))
         IN  IF semesterNumber > TOTAL_SEMESTERS
             THEN PlanLoopStaleCredits(plan, planIndex + 1, currentSemesterNum, semesters)
             ELSE IF targetSemester = Hole
             THEN [threw |-> TRUE, semesters |-> <<>>]
             ELSE PlanLoopStaleCredits(plan, planIndex + 1, currentSemesterNum,
                      AssignAt(semesters, semesterNumber - 1,
                               [targetSemester EXCEPT !.courses = courses]))

\* jsonData.plan.forEach, from planIndex on.  targetSemester is undefined
\* when semesterNumber is below 1; the push or, at the latest, the update
\* of totalCredits then raises a TypeError.
RECURSIVE PlanLoop(_, _, _, _)
PlanLoop(plan, planIndex, currentSemesterNum, semesters) ==
    IF planIndex >= Len(plan) THEN [threw |-> FALSE, semesters |-> semesters]
    ELSE LET semesterNumber == currentSemesterNum + planIndex
             targetSemester == At(semesters, semesterNumber - 1)
             courses == targetSemester.courses
                          \o PlannedCourses(plan[planIndex + 1],
                                 PlannedStatus(semesterNumber, currentSemesterNum))
         IN  IF semesterNumber > TOTAL_SEMESTERS
             THEN PlanLoop(plan, planIndex + 1, currentSemesterNum, semesters)
             ELSE IF targetSemester = Hole
             THEN [threw |-> TRUE, semesters |-> <<>>]
             ELSE PlanLoop(plan, planIndex + 1, currentSemesterNum,
                      AssignAt(semesters, semesterNumber - 1,
                               [targetSemester EXCEPT
                                   !.courses = courses,
                                   !.totalCredits = SumCredits(courses)]))

\* What a call produces: a TypeError, or the StudentInfo (its plan's
\* semesters and its currentSemester).
parseStudentData(data) ==
    LET filled == FillGaps(CoursedLoop(data.coursed, 0, <<>>), 0)
        planned == PlanLoop(data.plan, 0, data.currentSemester, filled)
    IN  [threw |-> planned.threw,
         semesters |-> planned.semesters,
         currentSemester |-> ToString(data.currentSemester)]

(***************************************************************************)
(* Raw student records drawn as input: courses of the curriculum and an    *)
(* unknown one, grades that pass, fail, are missing or are not numbers,    *)
(* arrays up to one semester longer than TOTAL_SEMESTERS, and a            *)
(* currentSemester from 0 to TOTAL_SEMESTERS + 1.  A raw record without a  *)
(* coursed or plan array behaves as one with an empty array.               *)
(***************************************************************************)
MaxRaw == 2   \* entries of the coursed and plan arrays of a raw record, in all

CoursedEntry(courseCode, classCode, grade) ==
    [courseCode |-> courseCode, classCode |-> classCode, grade |-> grade]

PlanEntry(courseCode, classCode) ==
    [courseCode |-> courseCode, classCode |-> classCode]

CoursedEntries ==
    {CoursedEntry("A", "T1", "6"), CoursedEntry("A", "", "4.5"),
     CoursedEntry("B", "T1", ""), CoursedEntry("B", "", "abc"),
     CoursedEntry("X", "T1", "9.5")}

PlanEntries == {PlanEntry("A", "T1"), PlanEntry("B", ""), PlanEntry("X", "T1")}

RECURSIVE RawListsOfLen(_, _)
RawListsOfLen(entries, n) ==
    IF n = 0 THEN {<<>>}
    ELSE {Append(l, e) : l \in RawListsOfLen(entries, n - 1), e \in entries}

\* The arrays of n semesters over entries with at most budget entries in all.
RECURSIVE RawArraysOf(_, _, _)
RawArraysOf(entries, n, budget) ==
    IF n = 0 THEN {<<>>}
    ELSE UNION {{<<l>> \o rest : rest \in RawArraysOf(entries, n - 1, budget - Len(l))} :
                  l \in UNION {RawListsOfLen(entries, k) : k \in 0..budget}}

RawArrays(entries, budget) ==
    UNION {RawArraysOf(entries, n, budget) : n \in 0..(TOTAL_SEMESTERS + 1)}

RECURSIVE CountEntries(_)
CountEntries(array) ==
    IF array = <<>> THEN 0 ELSE Len(Head(array)) + CountEntries(Tail(array))

\* The raw records with the coursed array given: any currentSemester and
\* any plan array within what the coursed array leaves of the budget.
RawRecordsWith(coursed) ==
    {[currentSemester |-> cur, coursed |-> coursed, plan |-> plan] :
        cur \in 0..(TOTAL_SEMESTERS + 1),
        plan \in RawArrays(PlanEntries, MaxRaw - CountEntries(coursed))}

(***************************************************************************)
(* Specification of the parsing: a raw record is drawn, the function runs. *)
(***************************************************************************)
ParseInit ==
    /\ pc = "raw"
    /\ \E coursed \in RawArrays(CoursedEntries, MaxRaw) :
          jsonData \in RawRecordsWith(coursed)
    /\ parsed = <<>>
    /\ PositionsIdle
    /\ TimetableIdle
    /\ HomeIdle

ParseStudentData ==
    /\ pc = "raw"
    /\ parsed' = parseStudentData(jsonData)
    /\ pc' = "parsed"
    /\ UNCHANGED <<jsonData, posVars, ttVars, homeVars>>

ParseNext == ParseStudentData

ParseSpec == ParseInit /\ [][ParseNext]_vars

\* The call returned a StudentInfo.
Returned == pc = "parsed" /\ ~parsed.threw

(***************************************************************************)
(* Properties of parseStudentData.                                         *)
(***************************************************************************)
\* The entries of a raw semester whose course is in the curriculum.
KnownEntries(entries) == SelectSeq(entries, LAMBDA e : e.courseCode \in DOMAIN Catalog)

\* The known entries of the coursed array for semester number n.
CoursedOf(n) ==
    IF n <= Len(jsonData.coursed) THEN KnownEntries(jsonData.coursed[n]) ELSE <<>>

\* The known entries of the plan array that target semester number n.
PlannedOf(n) ==
    LET planIndex == n - jsonData.currentSemester IN
        IF n <= TOTAL_SEMESTERS /\ planIndex >= 0 /\ planIndex < Len(jsonData.plan)
        THEN KnownEntries(jsonData.plan[planIndex + 1])
        ELSE <<>>

\* The places (semester, index) of the returned plan that hold course id.
PlacesHolding(id) ==
    {<<n, k>> \in (1..Len(parsed.semesters)) \X (1..(MaxRaw + 1)) :
        /\ k <= Len(parsed.semesters[n].courses)
        /\ parsed.semesters[n].courses[k].id = id}

\* C11: the semesters list of the returned plan has exactly TOTAL_SEMESTERS
\* entries and its i-th entry (from 0) has number i + 1, for every raw record.
C11_TotalSemesters ==
    Returned =>
        /\ Len(parsed.semesters) = TOTAL_SEMESTERS
        /\ \A n \in 1..Len(parsed.semesters) : parsed.semesters[n].number = n

\* C12: in the returned plan every course identifier appears at most once
\* across all semesters, whatever the coursed and plan arrays contain.
C12_AtMostOnce ==
    Returned => \A id \in DOMAIN Catalog : Cardinality(PlacesHolding(id)) <= 1

\* The sum of the credits of the first n courses of a list.
RECURSIVE CreditsUpTo(_, _)
CreditsUpTo(courses, n) ==
    IF n = 0 THEN 0 ELSE CreditsUpTo(courses, n - 1) + courses[n].credits

\* C13: in the returned plan the totalCredits of every semester is the sum
\* of the credits of its courses (0 for a semester without courses).
C13_TotalCredits ==
    Returned =>
        \A n \in 1..Len(parsed.semesters) :
            parsed.semesters[n].totalCredits =
                CreditsUpTo(parsed.semesters[n].courses, Len(parsed.semesters[n].courses))

\* A semester that received a coursed course and then a planned one, and
\* counts the credits of both; the other semester is empty and counts 0.
C13_Witness ==
    /\ Returned
    /\ Len(parsed.semesters) = TOTAL_SEMESTERS
    /\ Len(parsed.semesters[1].courses) = 2
    /\ parsed.semesters[1].courses[1].grade # <<>>
    /\ parsed.semesters[1].courses[2].grade = <<>>
    /\ parsed.semesters[1].totalCredits = 10
    /\ parsed.semesters[2].courses = <<>>
    /\ parsed.semesters[2].totalCredits = 0

\* The courses the raw record places in semester number n: the known
\* coursed entries of the semester, then the known plan entries that target it.
ExpectedIds(n) ==
    [k \in 1..(Len(CoursedOf(n)) + Len(PlannedOf(n))) |->
        IF k <= Len(CoursedOf(n)) THEN CoursedOf(n)[k].courseCode
        ELSE PlannedOf(n)[k - Len(CoursedOf(n))].courseCode]

ReturnedIds(n) ==
    [k \in 1..Len(parsed.semesters[n].courses) |-> parsed.semesters[n].courses[k].id]

\* C14: parseStudentData raises for no raw record (an unknown course code
\* in the plan, a currentSemester below 1 or above TOTAL_SEMESTERS, a plan
\* longer than the remaining semesters): it returns a StudentInfo in which
\* the offending entries are skipped and all the others are present.
C14_NeverRaises ==
    pc = "parsed" =>
        /\ ~parsed.threw
        /\ \A n \in 1..Len(parsed.semesters) : ReturnedIds(n) = ExpectedIds(n)

\* The grade of a text of the raw records, in tenths.
GradeOf(text) ==
    CASE text = "" -> 0 [] text = "4.5" -> 45 [] text = "6" -> 60
      [] text = "9.5" -> 95 [] OTHER -> NaN

\* C20: no course of the returned plan is PENDING; a coursed course is
\* COMPLETED when its grade is at least 6 and FAILED otherwise (a missing
\* grade counts as 0); a plan course is IN_PROGRESS exactly when its plan
\* index is 0 (its semester is currentSemester) and PLANNED otherwise.
C20_Statuses ==
    Returned =>
        \A n \in 1..Len(parsed.semesters) :
            LET courses == parsed.semesters[n].courses
                coursed == CoursedOf(n)
            IN  /\ Len(courses) = Len(coursed) + Len(PlannedOf(n))
                /\ \A k \in 1..Len(courses) :
                      /\ courses[k].status # "pending"
                      /\ k <= Len(coursed) =>
                            /\ GradeOf(coursed[k].grade) \in 60..100
                                  => courses[k].status = "completed"
                            /\ GradeOf(coursed[k].grade) \notin 60..100
                                  => courses[k].status = "failed"
                            /\ coursed[k].grade = "" => courses[k].grade = <<0>>
                      /\ k > Len(coursed) =>
                            /\ n = jsonData.currentSemester
                                  <=> courses[k].status = "inProgress"
                            /\ n # jsonData.currentSemester
                                  <=> courses[k].status = "planned"

\* Semester 1 holds a course passed with exactly 6 and a course in progress.
C20_Witness ==
    /\ Returned
    /\ jsonData.currentSemester = 1
    /\ Len(parsed.semesters[1].courses) = 2
    /\ parsed.semesters[1].courses[1].grade = <<60>>
    /\ parsed.semesters[1].courses[1].status = "completed"
    /\ parsed.semesters[1].courses[2].status = "inProgress"

(***************************************************************************)
(* The curriculum layout: generateVisualization of curriculum-parser, as   *)
(* section 4.1 of the specification describes it, and the boxes the        *)
(* CurriculumVisualizer draws (src/components/curriculum-visualizer.tsx).  *)
(* A value that may be null is a list of at most one element.              *)
(***************************************************************************)
Null == <<>>
Some(v) == <<v>>

MaxPhases == 2             \* phases of a curriculum drawn as input
MaxCurriculumCourses == 2  \* courses of a curriculum drawn as input

\* The fixed phase width of the layout.
PHASE_WIDTH == 200

\* The position of the course at courseIndex of the phase at phaseIndex
\* (both from 0).
LayoutPosition(course, phaseIndex, courseIndex) ==
    [courseId |-> course.id,
     x |-> phaseIndex * PHASE_WIDTH,
     y |-> courseIndex * SPACING_Y + SPACING_Y,
     width |-> Max(COURSE_BOX_MIN_WIDTH,
                   (PHASE_WIDTH * WIDTH_FACTOR_NUM) \div WIDTH_FACTOR_DEN),
     height |-> HEIGHT]

\* The positions of the courses of one phase, from courseIndex on.
RECURSIVE PhaseLayout(_, _, _)
PhaseLayout(courses, phaseIndex, courseIndex) ==
    IF courseIndex >= Len(courses) THEN <<>>
    ELSE <<LayoutPosition(courses[courseIndex + 1], phaseIndex, courseIndex)>>
           \o PhaseLayout(courses, phaseIndex, courseIndex + 1)

\* The positions of the phases, from phaseIndex on.
RECURSIVE PhasesLayout(_, _)
PhasesLayout(phases, phaseIndex) ==
    IF phaseIndex >= Len(phases) THEN <<>>
    ELSE PhaseLayout(phases[phaseIndex + 1].courses, phaseIndex, 0)
           \o PhasesLayout(phases, phaseIndex + 1)

generateVisualization(curriculum) == [positions |-> PhasesLayout(curriculum.phases, 0)]

\* A variant of find that looks the position up by the place of the course
\* in its phase.
FindPositionByPlace(positionList, course, k) ==
    IF k <= Len(positionList) THEN Some(positionList[k]) ELSE Null

\* visualization.positions.find((p) => p.courseId === course.id); k is the
\* place of the course in its phase (from 1), which find does not use.
RECURSIVE FindPositionFrom(_, _, _)
FindPositionFrom(positionList, course, i) ==
    IF i > Len(positionList) THEN Null
    ELSE IF positionList[i].courseId = course.id THEN Some(positionList[i])
    ELSE FindPositionFrom(positionList, course, i + 1)

FindPosition(positionList, course, k) == FindPositionFrom(positionList, course, 1)

\* phase.courses.map: a CourseBox for a course with a position, null otherwise.
PhaseBoxes(phase, visualization) ==
    [k \in 1..Len(phase.courses) |->
        LET position == FindPosition(visualization.positions, phase.courses[k], k) IN
            IF position = Null THEN Null
            ELSE Some([course |-> phase.courses[k], position |-> position[1]])]

\* curriculum.phases.flatMap
RECURSIVE CourseBoxesFrom(_, _, _)
CourseBoxesFrom(curriculum, visualization, i) ==
    IF i > Len(curriculum.phases) THEN <<>>
    ELSE PhaseBoxes(curriculum.phases[i], visualization)
           \o CourseBoxesFrom(curriculum, visualization, i + 1)

CourseBoxes(curriculum, visualization) == CourseBoxesFrom(curriculum, visualization, 1)

\* The courses of a curriculum, phase after phase.
RECURSIVE FlattenPhases(_)
FlattenPhases(phases) ==
    IF phases = <<>> THEN <<>>
    ELSE Head(phases).courses \o FlattenPhases(Tail(phases))

\* Curricula drawn as input: every course belongs to exactly one phase, and
\* the courses array lists the courses of the phases.
CurriculumCourseIds == {"A", "B", "C"}

\* The lists without repetition of at most n courses out of ids.
RECURSIVE CourseListsWithin(_, _)
CourseListsWithin(ids, n) ==
    IF n = 0 THEN {<<>>}
    ELSE {<<>>} \cup
         UNION {{<<[id |-> id]>> \o rest : rest \in CourseListsWithin(ids \ {id}, n - 1)} :
                  id \in ids}

IdsOf(courses) == {courses[k].id : k \in 1..Len(courses)}

\* The lists of n phases, numbered from number on, over ids, with at most
\* budget courses in all.
RECURSIVE PhaseListsOf(_, _, _, _)
PhaseListsOf(n, number, ids, budget) ==
    IF n = 0 THEN {<<>>}
    ELSE UNION {{<<[number |-> number, courses |-> courses]>> \o rest :
                    rest \in PhaseListsOf(n - 1, number + 1, ids \ IdsOf(courses),
                                          budget - Len(courses))} :
                  courses \in CourseListsWithin(ids, budget)}

MakeCurriculum(phases) ==
    [phases |-> phases, totalPhases |-> Len(phases), courses |-> FlattenPhases(phases)]

Curricula ==
    {MakeCurriculum(phases) :
        phases \in UNION {PhaseListsOf(n, 1, CurriculumCourseIds, MaxCurriculumCourses) :
                            n \in 0..MaxPhases}}

(***************************************************************************)
(* The Home page (src/unnamed/part_000).                                   *)
(*                                                                         *)
(* A world is the page with its surroundings: the state of the hooks of    *)
(* the component (home), the student store (store), the invocations of     *)
(* the two async functions, each waiting at an await (checkAuth,           *)
(* fetchScheduleData), and the route.  A step runs one continuation up to  *)
(* its next await; the state updates it makes are applied together, the    *)
(* component renders, and the effects whose dependencies changed run,      *)
(* until a render changes nothing.                                         *)
(*                                                                         *)
(* The student store is not part of the sources at hand.  It starts        *)
(* without a studentInfo; setStudentInfo keeps the object it is given; a   *)
(* mutation of the plan replaces studentInfo by a new object; every        *)
(* update renews lastUpdate.                                               *)
(***************************************************************************)
MaxUpdates == 2   \* mutations of the plan during one page session

\* The useState initial values.
InitialHome ==
    [curriculum |-> Null, visualization |-> Null, viewMode |-> "curriculum",
     matrufscData |-> Null, isLoadingMatrufscData |-> FALSE,
     loading |-> TRUE, profileLoading |-> TRUE, curriculumLoading |-> TRUE,
     scheduleLoading |-> TRUE, allDataLoaded |-> FALSE, error |-> "",
     studentInfo |-> Null, authChecked |-> FALSE]

InitialStore == [studentInfo |-> Null, lastUpdate |-> 0]

InitialWorld ==
    [home |-> InitialHome, store |-> InitialStore,
     checkAuth |-> <<>>, fetchScheduleData |-> <<>>, route |-> "home"]

\* A StudentInfo object: its currentDegree and which object it is.
StudentInfoObject(currentDegree, ref) == [currentDegree |-> currentDegree, ref |-> ref]

\* The effect that syncs the student info from the store to local state.
SyncEffect(rendered, w) ==
    IF rendered.store.studentInfo # Null
    THEN [w EXCEPT !.home.studentInfo = rendered.store.studentInfo]
    ELSE w

SyncDeps(w) == <<w.store.studentInfo, w.store.lastUpdate>>

\* A variant of the effect that is content with the profile having loaded.
AllDataLoadedEffectOnProfile(rendered, w) ==
    IF ~rendered.home.profileLoading
    THEN [w EXCEPT !.home.allDataLoaded = TRUE, !.home.loading = FALSE]
    ELSE w

\* The effect that updates allDataLoaded.
AllDataLoadedEffect(rendered, w) ==
    IF /\ ~rendered.home.profileLoading
       /\ ~rendered.home.curriculumLoading
       /\ ~rendered.home.scheduleLoading
    THEN [w EXCEPT !.home.allDataLoaded = TRUE, !.home.loading = FALSE]
    ELSE w

AllDataLoadedDeps(w) ==
    <<w.home.profileLoading, w.home.curriculumLoading, w.home.scheduleLoading>>

\* A variant of the auth effect without the test of authChecked.
AuthEffectUnguarded(rendered, w) ==
    [w EXCEPT !.checkAuth = Append(@, [pc |-> "auth", profile |-> Null, failed |-> ""])]

\* The effect that calls checkAuth, which runs up to its first await: the
\* request of /api/user/auth/check.
AuthEffect(rendered, w) ==
    IF rendered.home.authChecked THEN w
    ELSE [w EXCEPT !.checkAuth = Append(@, [pc |-> "auth", profile |-> Null,
                                           failed |-> ""])]

\* router is stable; studentStore is a new object after every store update.
AuthDeps(w) == <<w.store, w.home.authChecked>>

\* A variant of the schedule effect without the test of matrufscData.
ScheduleEffectAlways(rendered, w) ==
    IF rendered.home.studentInfo = Null THEN w
    ELSE IF rendered.home.studentInfo[1].currentDegree = ""
    THEN [w EXCEPT !.home.scheduleLoading = FALSE,
                   !.home.isLoadingMatrufscData = FALSE]
    ELSE [w EXCEPT !.home.isLoadingMatrufscData = TRUE,
                   !.fetchScheduleData = Append(@, [pc |-> "schedule", failed |-> FALSE])]

\* The effect that fetches the class schedule: fetchScheduleData runs up to
\* its await of fetchClassSchedule, or to its end when there is no degree.
ScheduleEffect(rendered, w) ==
    IF rendered.home.studentInfo = Null THEN w
    ELSE IF rendered.home.matrufscData # Null
    THEN [w EXCEPT !.home.scheduleLoading = FALSE]
    ELSE IF rendered.home.studentInfo[1].currentDegree = ""
    THEN [w EXCEPT !.home.scheduleLoading = FALSE,
                   !.home.isLoadingMatrufscData = FALSE]
    ELSE [w EXCEPT !.home.isLoadingMatrufscData = TRUE,
                   !.fetchScheduleData = Append(@, [pc |-> "schedule", failed |-> FALSE])]

ScheduleDeps(w) == <<w.home.studentInfo, w.home.matrufscData>>

\* The effects of the first render, in the order of the source.
MountEffects(w) ==
    ScheduleEffect(w, AuthEffect(w, AllDataLoadedEffect(w, SyncEffect(w, w))))

\* The effects after the render of cur that follows the render of prev:
\* those whose dependencies changed, in the order of the source.
RunEffects(prev, cur) ==
    LET w1 == IF SyncDeps(prev) # SyncDeps(cur) THEN SyncEffect(cur, cur) ELSE cur
        w2 == IF AllDataLoadedDeps(prev) # AllDataLoadedDeps(cur)
              THEN AllDataLoadedEffect(cur, w1) ELSE w1
        w3 == IF AuthDeps(prev) # AuthDeps(cur) THEN AuthEffect(cur, w2) ELSE w2
    IN  IF ScheduleDeps(prev) # ScheduleDeps(cur) THEN ScheduleEffect(cur, w3) ELSE w3

\* Renders and effects until nothing changes.
RECURSIVE Settle(_, _)
Settle(prev, cur) ==
    LET next == RunEffects(prev, cur) IN
        IF next = cur THEN cur ELSE Settle(cur, next)

\* catch (err) { router.push("/login") }: the fetch named stage failed.
CatchAuthError(w, i, stage) ==
    [w EXCEPT !.checkAuth[i].pc = "done", !.checkAuth[i].failed = stage,
              !.route = "login"]

\* checkAuth after the response of /api/user/auth/check.
AfterAuthCheck(w, i, outcome) ==
    IF outcome = "throws" THEN CatchAuthError(w, i, "auth")
    ELSE IF outcome = "anonymous"
    THEN [w EXCEPT !.home.authChecked = TRUE, !.checkAuth[i].pc = "done",
                   !.route = "login"]
    ELSE [w EXCEPT !.home.authChecked = TRUE, !.checkAuth[i].pc = "profile"]

\* A variant of AfterProfile that leaves profileLoading as it is.
AfterProfileKeepLoading(w, i, outcome) ==
    IF outcome.kind # "data" THEN CatchAuthError(w, i, "profile")
    ELSE LET profile == StudentInfoObject(outcome.currentDegree, <<"profile", i>>) IN
         [w EXCEPT !.home.studentInfo = Some(profile),
                   !.store.studentInfo = Some(profile),
                   !.store.lastUpdate = @ + 1,
                   !.checkAuth[i].profile = Some(profile),
                   !.checkAuth[i].pc = "programs"]

\* checkAuth after fetchStudentProfile.
AfterProfile(w, i, outcome) ==
    IF outcome.kind # "data" THEN CatchAuthError(w, i, "profile")
    ELSE LET profile == StudentInfoObject(outcome.currentDegree, <<"profile", i>>) IN
         [w EXCEPT !.home.studentInfo = Some(profile),
                   !.store.studentInfo = Some(profile),
                   !.store.lastUpdate = @ + 1,
                   !.home.profileLoading = FALSE,
                   !.checkAuth[i].profile = Some(profile),
                   !.checkAuth[i].pc = "programs"]

\* checkAuth after the response of /api/degree-programs.
AfterDegreePrograms(w, i, outcome) ==
    IF outcome = "throws" THEN CatchAuthError(w, i, "programs")
    ELSE IF w.checkAuth[i].profile[1].currentDegree # ""
    THEN [w EXCEPT !.checkAuth[i].pc = "curriculum"]
    ELSE [w EXCEPT !.home.curriculumLoading = FALSE, !.checkAuth[i].pc = "done"]

\* A variant of AfterCurriculum that leaves curriculumLoading as it is when
\* the curriculum has arrived.
AfterCurriculumKeepLoading(w, i, outcome) ==
    IF outcome.kind = "throws" THEN CatchAuthError(w, i, "curriculum")
    ELSE IF outcome.kind = "null"
    THEN [w EXCEPT !.home.curriculumLoading = FALSE,
                   !.checkAuth[i].pc = "done", !.checkAuth[i].failed = "curriculum"]
    ELSE LET processedCurriculum == outcome.curriculum[1] IN
         [w EXCEPT !.home.curriculum = Some(processedCurriculum),
                   !.home.visualization =
                       IF Len(processedCurriculum.courses) > 0
                       THEN Some(generateVisualization(processedCurriculum))
                       ELSE @,
                   !.checkAuth[i].pc = "done"]

\* checkAuth after fetchCurriculum.
AfterCurriculum(w, i, outcome) ==
    IF outcome.kind = "throws" THEN CatchAuthError(w, i, "curriculum")
    ELSE IF outcome.kind = "null"
    THEN [w EXCEPT !.home.curriculumLoading = FALSE,
                   !.checkAuth[i].pc = "done", !.checkAuth[i].failed = "curriculum"]
    ELSE LET processedCurriculum == outcome.curriculum[1] IN
         [w EXCEPT !.home.curriculum = Some(processedCurriculum),
                   !.home.visualization =
                       IF Len(processedCurriculum.courses) > 0
                       THEN Some(generateVisualization(processedCurriculum))
                       ELSE @,
                   !.home.curriculumLoading = FALSE,
                   !.checkAuth[i].pc = "done"]

\* fetchScheduleData after fetchClassSchedule.
AfterClassSchedule(w, j, outcome) ==
    IF outcome = "data"
    THEN [w EXCEPT !.home.matrufscData = Some("data"),
                   !.home.scheduleLoading = FALSE,
                   !.home.isLoadingMatrufscData = FALSE,
                   !.fetchScheduleData[j].pc = "done"]
    ELSE [w EXCEPT !.home.matrufscData = Null,
                   !.home.error =
                       IF outcome = "null"
                       THEN "Failed to load class schedules. Please try again later."
                       ELSE "An error occurred while loading class schedules.",
                   !.home.scheduleLoading = FALSE,
                   !.home.isLoadingMatrufscData = FALSE,
                   !.fetchScheduleData[j].pc = "done",
                   !.fetchScheduleData[j].failed = TRUE]

\* What the component returns: the loading screen, the error view, nothing,
\* or the planner.
View(h) ==
    IF h.loading \/ ~h.allDataLoaded THEN "loading"
    ELSE IF h.error # "" THEN "error"
    ELSE IF h.studentInfo = Null THEN "null"
    ELSE "planner"

\* A variant that draws the visualizer as soon as there is a curriculum.
CurriculumPaneOnCurriculum(h) ==
    IF h.viewMode = "curriculum"
    THEN IF h.curriculum # Null THEN "visualizer" ELSE "placeholder"
    ELSE "grid"

\* What the planner shows in the box of the curriculum.
CurriculumPane(h) ==
    IF h.viewMode = "curriculum"
    THEN IF /\ h.curriculum # Null
            /\ h.visualization # Null
            /\ Len(h.visualization[1].positions) > 0
         THEN "visualizer"
         ELSE "placeholder"
    ELSE "grid"

\* toggleView
ToggledView(w) ==
    [w EXCEPT !.home.viewMode = IF @ = "curriculum" THEN "electives" ELSE "curriculum"]

\* A mutation of the plan in the store (addCourseToSemester, removeCourse,
\* changeCourseStatus, setCourseGrade).
MutatedPlan(w) ==
    [w EXCEPT !.store.studentInfo =
                  Some(StudentInfoObject(@[1].currentDegree,
                                         <<"store", w.store.lastUpdate + 1>>)),
              !.store.lastUpdate = @ + 1]

(***************************************************************************)
(* Specification of the Home page: it is mounted, the responses of the     *)
(* requests arrive in any order with any outcome, and the user of the      *)
(* planner toggles the view and changes the plan.                          *)
(***************************************************************************)
AuthOutcomes == {"authenticated", "anonymous", "throws"}

ProfileOutcomes ==
    {[kind |-> "data", currentDegree |-> "208"], [kind |-> "data", currentDegree |-> ""],
     [kind |-> "null", currentDegree |-> ""], [kind |-> "throws", currentDegree |-> ""]}

ProgramsOutcomes == {"data", "throws"}

CurriculumOutcomes ==
    {[kind |-> "null", curriculum |-> Null], [kind |-> "throws", curriculum |-> Null]}
        \cup {[kind |-> "data", curriculum |-> Some(c)] : c \in Curricula}

ScheduleOutcomes == {"data", "null", "throws"}

World ==
    [home |-> home, store |-> store, checkAuth |-> checkAuthCalls,
     fetchScheduleData |-> fetchScheduleCalls, route |-> route]

\* The variables hold world w.
Holds(w) ==
    /\ home = w.home
    /\ store = w.store
    /\ checkAuthCalls = w.checkAuth
    /\ fetchScheduleCalls = w.fetchScheduleData
    /\ route = w.route

\* The continuation led to world w: the component renders and its effects
\* run; the rest of the model stays as it is.
Becomes(w) ==
    /\ LET settled == Settle(World, w) IN
          /\ home' = settled.home
          /\ store' = settled.store
          /\ checkAuthCalls' = settled.checkAuth
          /\ fetchScheduleCalls' = settled.fetchScheduleData
          /\ route' = settled.route
    /\ UNCHANGED <<pc, posVars, ttVars, parseVars>>

\* The first render and its effects.
HomeInit ==
    /\ pc = "home"
    /\ Holds(Settle(InitialWorld, MountEffects(InitialWorld)))
    /\ PositionsIdle
    /\ TimetableIdle
    /\ ParserIdle

\* The page is shown and invocation i of checkAuth waits at stage.
Awaits(i, stage) ==
    /\ pc = "home"
    /\ route = "home"
    /\ i \in 1..Len(checkAuthCalls)
    /\ checkAuthCalls[i].pc = stage

AuthCheckResponse ==
    \E i \in 1..Len(checkAuthCalls), outcome \in AuthOutcomes :
        Awaits(i, "auth") /\ Becomes(AfterAuthCheck(World, i, outcome))

ProfileResponse ==
    \E i \in 1..Len(checkAuthCalls), outcome \in ProfileOutcomes :
        Awaits(i, "profile") /\ Becomes(AfterProfile(World, i, outcome))

DegreeProgramsResponse ==
    \E i \in 1..Len(checkAuthCalls), outcome \in ProgramsOutcomes :
        Awaits(i, "programs") /\ Becomes(AfterDegreePrograms(World, i, outcome))

CurriculumResponse ==
    \E i \in 1..Len(checkAuthCalls), outcome \in CurriculumOutcomes :
        Awaits(i, "curriculum") /\ Becomes(AfterCurriculum(World, i, outcome))

ClassScheduleResponse ==
    \E j \in 1..Len(fetchScheduleCalls), outcome \in ScheduleOutcomes :
        /\ pc = "home"
        /\ route = "home"
        /\ fetchScheduleCalls[j].pc = "schedule"
        /\ Becomes(AfterClassSchedule(World, j, outcome))

\* The button of the planner.
ToggleView ==
    /\ pc = "home"
    /\ route = "home"
    /\ View(home) = "planner"
    /\ Becomes(ToggledView(World))

\* The user of the planner adds, drops or removes a course, or changes a
\* status or a grade.
MutatePlan ==
    /\ pc = "home"
    /\ route = "home"
    /\ View(home) = "planner"
    /\ store.lastUpdate <= MaxUpdates
    /\ Becomes(MutatedPlan(World))

HomeNext ==
    \/ AuthCheckResponse
    \/ ProfileResponse
    \/ DegreeProgramsResponse
    \/ CurriculumResponse
    \/ ClassScheduleResponse
    \/ ToggleView
    \/ MutatePlan

HomeSpec == HomeInit /\ [][HomeNext]_vars

(***************************************************************************)
(* Properties of the Home page.                                            *)
(***************************************************************************)
\* This step calls fetchClassSchedule.
ScheduleFetchIssued == Len(fetchScheduleCalls') > Len(fetchScheduleCalls)

\* This step brings an invocation of checkAuth to the await of stage.
FetchIssued(stage) ==
    \E i \in 1..Len(checkAuthCalls') :
        /\ checkAuthCalls'[i].pc = stage
        /\ i > Len(checkAuthCalls) \/ checkAuthCalls[i].pc # stage

Quiescent ==
    /\ \A i \in 1..Len(checkAuthCalls) : checkAuthCalls[i].pc = "done"
    /\ \A j \in 1..Len(fetchScheduleCalls) : fetchScheduleCalls[j].pc = "done"

\* The fetch of the profile, of the curriculum or of the class schedule failed.
SomeFetchFailed ==
    \/ \E i \in 1..Len(checkAuthCalls) : checkAuthCalls[i].failed \in {"profile", "curriculum"}
    \/ \E j \in 1..Len(fetchScheduleCalls) : fetchScheduleCalls[j].failed

\* C16: when the fetch of the profile, of the curriculum or of the class
\* schedule has failed, the page comes to show a user-visible error: once
\* no response is awaited, error is not empty and the error view is rendered.
C16_ErrorShown ==
    pc = "home" /\ SomeFetchFailed /\ Quiescent
        => home.error # "" /\ View(home) = "error" /\ route = "home"

PositionedIds(h) ==
    {h.visualization[1].positions[k].courseId :
        k \in 1..Len(h.visualization[1].positions)}

\* C18: when the planner shows the curriculum view and the visualization
\* is absent or has no position, the placeholder is rendered and error is
\* unset; error is set by nothing but a failed fetch of the class schedule;
\* the CurriculumVisualizer is rendered only when there are positions, and
\* it draws a box for exactly the courses that have a position.
C18_Placeholder ==
    pc = "home" =>
        /\ ( /\ View(home) = "planner"
             /\ home.viewMode = "curriculum"
             /\ \/ home.visualization = Null
                \/ home.visualization[1].positions = <<>> )
              => CurriculumPane(home) = "placeholder" /\ home.error = ""
        /\ home.error # "" => \E j \in 1..Len(fetchScheduleCalls) : fetchScheduleCalls[j].failed
        /\ CurriculumPane(home) = "visualizer" =>
              /\ home.curriculum # Null
              /\ home.visualization # Null
              /\ Len(home.visualization[1].positions) > 0
              /\ LET boxes == CourseBoxes(home.curriculum[1], home.visualization[1])
                     courses == home.curriculum[1].courses
                 IN  /\ Len(boxes) = Len(courses)
                     /\ \A k \in 1..Len(boxes) :
                           /\ boxes[k] # Null <=> courses[k].id \in PositionedIds(home)
                           /\ boxes[k] # Null => boxes[k][1].course = courses[k]

\* The planner shows the curriculum view for a curriculum without courses:
\* there is no visualization, and the placeholder is rendered.
C18_Witness ==
    /\ pc = "home"
    /\ View(home) = "planner"
    /\ home.viewMode = "curriculum"
    /\ home.curriculum # Null
    /\ home.visualization = Null
    /\ CurriculumPane(home) = "placeholder"

\* The places of the position list that hold the position of course id.
PlacesOfCourse(positionList, id) ==
    {k \in 1..Len(positionList) : positionList[k].courseId = id}

\* C19: for every curriculum the position list of generateVisualization has
\* one position for each course of each phase and no other (its length is
\* the sum of the course counts of the phases), and the lookup of the
\* visualizer finds, for every course, the one position of that course.
C19_OnePositionPerCourse ==
    pc = "home" /\ home.curriculum # Null =>
        LET curriculum == home.curriculum[1]
            visualization == generateVisualization(curriculum)
            boxes == CourseBoxes(curriculum, visualization)
        IN  /\ Len(visualization.positions) = Len(curriculum.courses)
            /\ home.visualization # Null => home.visualization[1] = visualization
            /\ Len(boxes) = Len(curriculum.courses)
            /\ \A k \in 1..Len(curriculum.courses) :
                  /\ Cardinality(PlacesOfCourse(visualization.positions,
                                                curriculum.courses[k].id)) = 1
                  /\ boxes[k] # Null
                  /\ boxes[k][1].position.courseId = curriculum.courses[k].id

\* The visualization of a curriculum of two phases with one course each.
C19_Witness ==
    /\ pc = "home"
    /\ home.curriculum # Null
    /\ Len(home.curriculum[1].phases) = 2
    /\ Len(home.curriculum[1].phases[1].courses) = 1
    /\ Len(home.curriculum[1].phases[2].courses) = 1
    /\ home.visualization # Null
    /\ Len(home.visualization[1].positions) = 2
    /\ home.visualization[1].positions[2].x = PHASE_WIDTH

ResponsesArrive ==
    /\ WF_vars(AuthCheckResponse)
    /\ WF_vars(ProfileResponse)
    /\ WF_vars(DegreeProgramsResponse)
    /\ WF_vars(CurriculumResponse)
    /\ WF_vars(ClassScheduleResponse)

HomeLiveSpec == HomeInit /\ [][HomeNext]_vars /\ ResponsesArrive

\* The loading screen has ended: the three loading flags are false,
\* allDataLoaded is true and loading is false.
LoadingEnded ==
    /\ ~home.profileLoading
    /\ ~home.curriculumLoading
    /\ ~home.scheduleLoading
    /\ home.allDataLoaded
    /\ ~home.loading

\* C22: when the auth check reports an authenticated user and the fetches
\* of the profile, the degree programs, the curriculum and the class
\* schedule all return data, the loading screen ends eventually: either a
\* response was a refusal or a failure, or the page comes to LoadingEnded.
C22_LoadingEnds ==
    <>(route = "login" \/ SomeFetchFailed \/ LoadingEnded)

\* Every request returned data and the loading screen has ended.
C22_Witness ==
    /\ pc = "home"
    /\ route = "home"
    /\ ~SomeFetchFailed
    /\ home.curriculum # Null
    /\ home.matrufscData # Null
    /\ LoadingEnded
    /\ View(home) = "planner"

\* allDataLoaded implies that nothing is loading any more.
LoadedImpliesNotLoading ==
    home.allDataLoaded =>
        /\ ~home.profileLoading
        /\ ~home.curriculumLoading
        /\ ~home.scheduleLoading
        /\ ~home.loading

\* A step sets no loading flag back to true and does not clear allDataLoaded.
FlagsStayDown ==
    /\ ~home.profileLoading => ~home'.profileLoading
    /\ ~home.curriculumLoading => ~home'.curriculumLoading
    /\ ~home.scheduleLoading => ~home'.scheduleLoading
    /\ home.allDataLoaded => home'.allDataLoaded

\* C26: in every reachable state of the Home page allDataLoaded = true
\* implies that profileLoading, curriculumLoading and scheduleLoading are
\* false and loading is false; no step sets one of the three loading flags
\* back to true, and allDataLoaded, once true, stays true.
C26_LoadedForGood ==
    /\ [](pc = "home" => LoadedImpliesNotLoading)
    /\ [][pc = "home" => FlagsStayDown]_vars

\* allDataLoaded is true although a fetch failed and the user has changed
\* the plan since: the flags are down and the later steps left them down.
C26_Witness ==
    /\ pc = "home"
    /\ home.allDataLoaded
    /\ ~home.profileLoading /\ ~home.curriculumLoading /\ ~home.scheduleLoading
    /\ ~home.loading
    /\ store.lastUpdate >= 2

(***************************************************************************)
(* Properties of professorOverrides and of the grid under selections and   *)
(* plan changes.                                                           *)
(***************************************************************************)
\* The professor is in the schedule data of the course.
KnownProfessor(courseId, professorId) ==
    \E i \in 1..Len(scheduleData.professors[courseId]) :
        scheduleData.professors[courseId][i].professorId = professorId

\* The overrides of a list that are for other courses, in their order.
OthersOf(overrides, courseId) ==
    SelectSeq(overrides, LAMBDA o : o.courseId # courseId)

\* What a selection of professorId for the course makes of professorOverrides.
AfterSelection(course, professorId) ==
    handleProfessorSelect(scheduleData, professorOverrides, course, professorId)

\* The selection of a professor of the schedule data stores its override
\* as the only one of the course, after the overrides of the other courses,
\* which it leaves as they are; the selection of an unknown professor
\* leaves professorOverrides unchanged.
SelectionStored(course, professorId) ==
    LET after == AfterSelection(course, professorId)
        id == course.course
    IN IF KnownProfessor(id, professorId)
       THEN /\ after # <<>>
            /\ after[Len(after)].courseId = id
            /\ after[Len(after)].professorId = professorId
            /\ after[Len(after)].schedule = ParseSchedule(TextOf(after[Len(after)]))
            /\ Cardinality({i \in 1..Len(after) : after[i].courseId = id}) = 1
            /\ OthersOf(after, id) = OthersOf(professorOverrides, id)
       ELSE after = professorOverrides

\* C23: professorOverrides holds at most one override per courseId, each
\* of a professor of the schedule data; in every reachable state a further
\* selection of a known professor replaces the override of its course by
\* the one selected, so that the stored override is that of the most
\* recent such selection, and a selection of an unknown professor leaves
\* professorOverrides unchanged.
C23_LatestOverride ==
    pc = "timetable" =>
        /\ \A id \in CourseIds : Cardinality(OverridesOf(id)) <= 1
        /\ \A i \in 1..Len(professorOverrides) :
              KnownProfessor(professorOverrides[i].courseId, professorOverrides[i].professorId)
        /\ \A k \in 1..Len(CurrentCourses), professorId \in ProfessorIds :
              SelectionStored(CurrentCourses[k], professorId)

\* B's professor was selected again after A's: A's override comes first and
\* B's is the one of P2; the selection of P1 for A would put A's override
\* last, and P2, unknown for A, would change nothing.
C23_Witness ==
    /\ pc = "timetable"
    /\ InProgressIds = {"A", "B"}
    /\ Len(professorOverrides) = 2
    /\ professorOverrides[1].courseId = "A"
    /\ professorOverrides[2].courseId = "B"
    /\ professorOverrides[2].professorId = "P2"
    /\ ~KnownProfessor("A", "P2")
    /\ AfterSelection(StudentCourse("A", "inProgress"), "P1") # professorOverrides
    /\ AfterSelection(StudentCourse("A", "inProgress"), "P2") = professorOverrides

\* The entries of the current plan, of every status.
PlanCourses ==
    IF studentInfo.currentPlan = <<>> THEN {}
    ELSE LET semesters == studentInfo.currentPlan[1].semesters IN
         UNION {{semesters[s].courses[c] : c \in 1..Len(semesters[s].courses)} :
                   s \in 1..Len(semesters)}

\* The ids of the courses that the plan holds with the status IN_PROGRESS.
PlanInProgressIds == {course.course : course \in {c \in PlanCourses : c.status = "inProgress"}}

\* The overrides stored for courses that are in progress, in their order.
LiveOverrides ==
    SelectSeq(professorOverrides, LAMBDA o : o.courseId \in PlanInProgressIds)

\* C24: every non-empty cell of the grid holds an entry of the current
\* plan whose status is IN_PROGRESS; an override stored for a course that
\* is not in progress writes no cell - the course is in no cell and the
\* grid is the one computed without that override; with no in-progress
\* course every cell is empty.
C24_OnlyInProgress ==
    pc = "timetable" =>
        /\ \A cell \in Cells :
              LET held == courseSchedule[cell[1]][cell[2]] IN
              held # Undefined => held \in PlanCourses /\ held.status = "inProgress"
        /\ \A i \in 1..Len(professorOverrides) :
              professorOverrides[i].courseId \notin PlanInProgressIds
                 => CellsOf(professorOverrides[i].courseId) = {}
        /\ courseSchedule = ComputeSchedule(CurrentCourses, LiveOverrides, scheduleData)
        /\ PlanInProgressIds = {} => \A cell \in Cells : courseSchedule[cell[1]][cell[2]] = Undefined

\* B's professor was selected while B was in progress; in the plan of now B
\* is planned only, its override claims cells and B is in none, while A is
\* in the grid.
C24_Witness ==
    /\ pc = "timetable"
    /\ PlanInProgressIds = {"A"}
    /\ StudentCourse("B", "planned") \in PlanCourses
    /\ \E i \in 1..Len(professorOverrides) :
          /\ professorOverrides[i].courseId = "B"
          /\ \E k \in 1..Len(professorOverrides[i].schedule) :
                Claimed(professorOverrides[i].schedule[k]) # {}
    /\ CellsOf("B") = {}
    /\ CellsOf("A") # {}

\* No course of the plan is in progress, overrides are stored, and the grid
\* is empty.
EmptyGridWithOverrides ==
    /\ pc = "timetable"
    /\ PlanCourses # {}
    /\ PlanInProgressIds = {}
    /\ professorOverrides # <<>>
    /\ courseSchedule = EmptySchedule

\* The course that a cell holds.
Holder(cell) == courseSchedule[cell[1]][cell[2]].course

\* The cells that two in-progress courses both claim.
Contested(x, y) == ClaimedBy(x) \cap ClaimedBy(y)

\* The place of an in-progress course in the order of the plan.
PlanPlace(id) == CHOOSE i \in 1..Len(CurrentCourses) : CurrentCourses[i].course = id

\* The place of the override of a course in professorOverrides.
OverridePlace(id) == CHOOSE i \in OverridesOf(id) : TRUE

\* The cells that the entries of an override claim.
ClaimedByOverride(override) ==
    UNION {Claimed(override.schedule[k]) : k \in 1..Len(override.schedule)}

\* After the selection of a known professor for a course, every cell that
\* the new override and the override of another in-progress course claim
\* holds the course just selected.
LaterSelectionWins(course, professorId) ==
    LET after == AfterSelection(course, professorId)
        grid == ComputeSchedule(CurrentCourses, after, scheduleData)
    IN KnownProfessor(course.course, professorId) =>
          \A i \in 1..(Len(after) - 1) :
              after[i].courseId \in InProgressIds =>
                  \A cell \in ClaimedByOverride(after[i])
                                 \cap ClaimedByOverride(after[Len(after)]) :
                      grid[cell[1]][cell[2]].course = course.course

\* C25: a cell that an in-progress course with an override and one with
\* its default schedule both claim holds the overridden course, whatever
\* their order in the plan; a cell that two default-schedule courses claim
\* holds the one later in the plan; a cell that two overridden courses
\* claim holds the one whose override was selected later, which is the one
\* later in professorOverrides.
C25_Precedence ==
    pc = "timetable" =>
        /\ \A x, y \in InProgressIds :
              (x # y /\ OverridesOf(x) # {} /\ OverridesOf(y) = {})
                 => \A cell \in Contested(x, y) : Holder(cell) = x
        /\ \A x, y \in InProgressIds :
              (OverridesOf(x) = {} /\ OverridesOf(y) = {} /\ PlanPlace(x) < PlanPlace(y))
                 => \A cell \in Contested(x, y) : Holder(cell) = y
        /\ \A x, y \in InProgressIds :
              (/\ OverridesOf(x) # {} /\ OverridesOf(y) # {}
               /\ OverridePlace(x) < OverridePlace(y))
                 => \A cell \in Contested(x, y) : Holder(cell) = y
        /\ \A k \in 1..Len(CurrentCourses), professorId \in ProfessorIds :
              LaterSelectionWins(CurrentCourses[k], professorId)

\* A and B both have an override, B's selected after A's; B is before A in
\* the plan; the cell that both overrides claim holds B, and A keeps the
\* other cells of its override.
C25_Witness ==
    /\ pc = "timetable"
    /\ InProgressIds = {"A", "B"}
    /\ PlanPlace("B") < PlanPlace("A")
    /\ OverridesOf("A") # {} /\ OverridesOf("B") # {}
    /\ OverridePlace("A") < OverridePlace("B")
    /\ Contested("A", "B") # {}
    /\ \A cell \in Contested("A", "B") : Holder(cell) = "B"
    /\ CellsOf("A") # {}

\* Two default schedules collide and the later course of the plan holds
\* the cell.
DefaultsCollide ==
    /\ pc = "timetable"
    /\ InProgressIds = {"A", "B"}
    /\ professorOverrides = <<>>
    /\ \E cell \in Contested("A", "B") :
          Holder(cell) = CurrentCourses[Len(CurrentCourses)].course

\* An overridden course, later in the plan than a default-schedule course,
\* holds a cell that both claim.
OverrideAfterDefault ==
    /\ pc = "timetable"
    /\ \E x, y \in InProgressIds :
          /\ OverridesOf(x) # {} /\ OverridesOf(y) = {}
          /\ PlanPlace(y) < PlanPlace(x)
          /\ \E cell \in Contested(x, y) : Holder(cell) = x

====
